---- MODULE Spec2Model ----
(***************************************************************************)
(* A model of av-gif: the GIF encoder state machine (src/src/encoder.rs),  *)
(* its LZW bit packer (src/src/lzw.rs) and the container parser            *)
(* (src/src/demuxer.rs).  Bytes are naturals 0..255, byte strings are      *)
(* sequences of bytes, u16/u32 arithmetic is taken modulo its width.       *)
(***************************************************************************)
EXTENDS Integers, Sequences, FiniteSets, TLC

VARIABLES
    state,              \* GifEncoderState.state
    buffer,             \* GifEncoderState.writer.buffer
    lzw_encoder,        \* GifEncoderState.lzw_encoder
    frame_count,        \* GifEncoderState.frame_count
    width,              \* GifEncoderState.width
    height,             \* GifEncoderState.height
    loop_count,         \* GifEncoderState.loop_count
    is_interlaced,      \* GifEncoderState.is_interlaced
    compressed_buffer,  \* GifEncoderState.compressed_buffer
    panicked,           \* a call of process_event unwound instead of returning
    lastEvent,          \* the event given to the last process_event call
    result,             \* what that call returned: "none" | "ok" | "err"
    prevLen,            \* Len(buffer) when that call started
    prevState,          \* state when that call started
    nchunks,            \* WriteImageChunk calls made in the current frame
    frame_codes,        \* the LZW codes behind compressed_buffer, in order
    frame_log,          \* per FlushFrame: the frame buffer it wrote
    p_input,            \* the byte slice given to parse_gif
    p_blocks,           \* the block structure p_input was assembled from
    p_rest,             \* parse_gif's local `input`: what is left to read
    p_pc,               \* where parse_gif is: "start" | "loop" | "ok" | "err"
    demuxer,            \* the GifDemuxer parse_gif works on
    pending_gce,        \* parse_gif's local `pending_gce`
    p_trace             \* what parse_block returned, per loop iteration

encVars == <<state, buffer, lzw_encoder, frame_count, width, height,
             loop_count, is_interlaced, compressed_buffer>>
obsVars == <<panicked, lastEvent, result, prevLen, prevState, nchunks,
             frame_codes, frame_log>>
parseVars == <<p_input, p_blocks, p_rest, p_pc, demuxer, pending_gce, p_trace>>
vars == <<encVars, obsVars, parseVars>>

----------------------------------------------------------------------------
(* Bounds of the model. *)

MaxFrames == 2
MaxChunks == 2

----------------------------------------------------------------------------
(* Integer helpers: the fixed-width operations the code uses. *)

Pow2(n) == 2 ^ n

RECURSIVE BitOr(_, _)
BitOr(a, b) ==
    IF a = 0 THEN b
    ELSE IF b = 0 THEN a
    ELSE (IF a % 2 = 1 \/ b % 2 = 1 THEN 1 ELSE 0) + 2 * BitOr(a \div 2, b \div 2)

RECURSIVE BitAnd(_, _)
BitAnd(a, b) ==
    IF a = 0 \/ b = 0 THEN 0
    ELSE (IF a % 2 = 1 /\ b % 2 = 1 THEN 1 ELSE 0) + 2 * BitAnd(a \div 2, b \div 2)

\* (x as u32) << n, for a u16 x: the bits shifted past bit 31 are dropped.
Shl32(x, n) == (IF n >= 2 THEN x % Pow2(32 - n) ELSE x) * Pow2(n)

to_le_bytes(x) == <<x % 256, x \div 256>>

from_le_bytes(lo, hi) == lo + 256 * hi

\* Option<T>
None == [some |-> FALSE, v |-> <<>>]
Some(x) == [some |-> TRUE, v |-> x]

Drop(s, n) == SubSeq(s, n + 1, Len(s))
Take(s, n) == SubSeq(s, 1, n)

\* The concatenation of the sequences in ss, in order
RECURSIVE Flatten(_)
Flatten(ss) ==
    IF ss = <<>> THEN <<>>
    ELSE IF Len(ss) = 1 THEN ss[1]
    ELSE LET h == Len(ss) \div 2
         IN Flatten(Take(ss, h)) \o Flatten(Drop(ss, h))

----------------------------------------------------------------------------
(* LzwEncoder (src/src/lzw.rs). *)

clear_code == 256
end_of_stream_code == 257

\* The dictionary is a HashMap<Vec<u8>, u16>.  new and reset_dictionary
\* insert the 256 single-byte keys (<<i>> -> i) and nothing removes a key
\* in between, so the field `dictionary` holds only the keys that line 54
\* inserted and the single-byte keys are answered here.
EmptyDictionary == [s \in {} |-> 0]

contains_key(dictionary, s) ==
    \/ Len(s) = 1 /\ s[1] \in 0..255
    \/ s \in DOMAIN dictionary

DictIndex(dictionary, s) == IF Len(s) = 1 THEN s[1] ELSE dictionary[s]

\* LzwEncoder::new.  `emitted` is the log of write_code calls that lies
\* behind `output`; `panic` is set when a dictionary lookup misses.
LzwNew(code_size) ==
    [code_size |-> code_size,
     next_code |-> 258,
     dictionary |-> EmptyDictionary,
     current_sequence |-> <<>>,
     output |-> <<>>,
     bit_buffer |-> 0,
     bit_count |-> 0,
     emitted |-> <<>>,
     panic |-> FALSE]

\* LzwEncoder::flush_bits
flush_bits(l) ==
    [l EXCEPT !.output = Append(@, l.bit_buffer % 256),
              !.bit_buffer = @ \div 256,
              !.bit_count = @ - 8]

RECURSIVE FlushWhile8(_)
FlushWhile8(l) == IF l.bit_count >= 8 THEN FlushWhile8(flush_bits(l)) ELSE l

\* LzwEncoder::write_code
write_code(l, code) ==
    FlushWhile8([l EXCEPT !.bit_buffer = BitOr(@, Shl32(code, l.bit_count)),
                          !.bit_count = @ + l.code_size,
                          !.emitted = Append(@, code)])

\* A reset_dictionary without line 116: the buffered prefix stays.
reset_dictionary_keeping_sequence(l) ==
    [l EXCEPT !.dictionary = EmptyDictionary,
              !.next_code = 258,
              !.code_size = 9]

\* LzwEncoder::reset_dictionary
reset_dictionary(l) ==
    [l EXCEPT !.dictionary = EmptyDictionary,
              !.next_code = 258,
              !.code_size = 9,
              !.current_sequence = <<>>]

\* LzwEncoder::reset
LzwReset(l) ==
    [reset_dictionary(l) EXCEPT !.bit_buffer = 0, !.bit_count = 0]

\* The body of encode_chunk's `for &pixel in chunk` loop.
EncodePixel(l, pixel) ==
    LET extended_sequence == Append(l.current_sequence, pixel) IN
    IF l.panic THEN l
    ELSE IF contains_key(l.dictionary, extended_sequence)
    THEN [l EXCEPT !.current_sequence = extended_sequence]
    ELSE IF ~contains_key(l.dictionary, l.current_sequence)
    THEN [l EXCEPT !.panic = TRUE]
    ELSE
      LET code == DictIndex(l.dictionary, l.current_sequence)
          l1 == write_code(l, code)
          l2 == IF l1.next_code < 4096
                THEN LET ins == [l1 EXCEPT
                                   !.dictionary = @ @@ (extended_sequence :> l1.next_code),
                                   !.next_code = @ + 1]
                         grown == IF ins.next_code = Pow2(ins.code_size) - 1
                                     /\ ins.code_size < 12
                                  THEN [ins EXCEPT !.code_size = @ + 1]
                                  ELSE ins
                     IN write_code(grown, DictIndex(grown.dictionary, grown.current_sequence))
                ELSE reset_dictionary(write_code(l1, clear_code))
      IN [l2 EXCEPT !.current_sequence = <<pixel>>]

RECURSIVE EncodePixels(_, _)
EncodePixels(l, chunk) ==
    IF chunk = <<>> THEN l
    ELSE IF Len(chunk) = 1 THEN EncodePixel(l, chunk[1])
    ELSE LET h == Len(chunk) \div 2
             mid == EncodePixels(l, Take(chunk, h))
         IN IF mid.panic THEN mid ELSE EncodePixels(mid, Drop(chunk, h))

\* LzwEncoder::encode_chunk
encode_chunk(l, chunk) ==
    EncodePixels(IF l.output = <<>> THEN write_code(l, clear_code) ELSE l, chunk)

\* LzwEncoder::finalize
finalize(l) ==
    IF l.panic THEN l
    ELSE IF l.current_sequence # <<>> /\ ~contains_key(l.dictionary, l.current_sequence)
    THEN [l EXCEPT !.panic = TRUE]
    ELSE
      LET l1 == IF l.current_sequence # <<>>
                THEN write_code(l, DictIndex(l.dictionary, l.current_sequence))
                ELSE l
          l2 == write_code(l1, end_of_stream_code)
      IN IF l2.bit_count > 0
         THEN [l2 EXCEPT !.output = Append(@, l2.bit_buffer % 256),
                         !.bit_buffer = @ \div 256,
                         !.bit_count = 0]
         ELSE l2

\* LzwEncoder::get_encoded_data
get_encoded_data(l) == l.output

----------------------------------------------------------------------------
(* GifWriter (src/src/encoder.rs).  Each writer takes the buffer and        *)
(* returns [buffer, panic]: the buffer as the call leaves it, and whether   *)
(* the call unwound.  `checks` says whether the build checks arithmetic     *)
(* overflow (a debug build) or wraps (a release build).                     *)

Sig89a == <<71, 73, 70, 56, 57, 97>>      \* b"GIF89a"
Sig87a == <<71, 73, 70, 56, 55, 97>>      \* b"GIF87a"
Netscape20 == <<78, 69, 84, 83, 67, 65, 80, 69, 50, 46, 48>>  \* b"NETSCAPE2.0"

\* u8::next_power_of_two: [panic, v]
next_power_of_two(n, checks) ==
    IF n > 128 THEN [panic |-> checks, v |-> 0]
    ELSE [panic |-> FALSE,
          v |-> CHOOSE p \in {Pow2(k) : k \in 0..7} :
                   p >= n /\ \A q \in {Pow2(k) : k \in 0..7} : q >= n => p <= q]

\* u8::trailing_zeros
trailing_zeros(n) ==
    IF n = 0 THEN 8 ELSE CHOOSE k \in 0..7 : n % Pow2(k + 1) = Pow2(k)

\* ((palette.len() as u8).next_power_of_two().trailing_zeros() - 1) as u8
\* & 0b0000_0111                                   (lines 285-286, 376-377)
TableSizeField(len, checks) ==
    LET npot == next_power_of_two(len % 256, checks)
        tz == trailing_zeros(npot.v)
    IN IF npot.panic THEN [panic |-> TRUE, v |-> 0]
       \* 0u32 - 1 wraps to 0xFFFF_FFFF, which `as u8` cuts to 255
       ELSE IF tz = 0 THEN [panic |-> checks, v |-> BitAnd(255, 7)]
       ELSE [panic |-> FALSE, v |-> BitAnd(tz - 1, 7)]

\* GifWriter::calculate_min_code_size
RECURSIVE MinCodeLoop(_, _)
MinCodeLoop(min_code_size, palette_size) ==
    IF Pow2(min_code_size) < palette_size
    THEN MinCodeLoop(min_code_size + 1, palette_size)
    ELSE min_code_size

calculate_min_code_size(palette) ==
    LET palette_size == IF palette.some THEN Len(palette.v) ELSE 256
    IN MinCodeLoop(1, palette_size) + 1

\* GifWriter::write_gif_header
write_gif_header(buf, w, h, background_index, global_palette, loops, checks) ==
    LET b1 == buf \o Sig89a \o to_le_bytes(w) \o to_le_bytes(h)
        size == IF global_palette.some
                THEN TableSizeField(Len(global_palette.v), checks)
                ELSE [panic |-> FALSE, v |-> 0]
        packed_fields == IF global_palette.some THEN 128 + size.v ELSE 0
        b2 == b1 \o <<packed_fields, background_index, 0>>
                 \o (IF global_palette.some THEN Flatten(global_palette.v) ELSE <<>>)
        b3 == IF loops.some
              THEN b2 \o <<33, 255, 11>> \o Netscape20 \o <<3, 1>>
                      \o to_le_bytes(loops.v) \o <<0>>
              ELSE b2
    IN IF size.panic THEN [buffer |-> b1, panic |-> TRUE]
       ELSE [buffer |-> b3, panic |-> FALSE]

\* DisposalMethod -> the bits write_graphic_control_exension sets
DisposalBits(disposal_method) ==
    CASE disposal_method = "None" -> 0
      [] disposal_method = "Keep" -> 4
      [] disposal_method = "Background" -> 8
      [] disposal_method = "Previous" -> 12

\* A GCE writer that sets the transparency flag one bit too high
write_graphic_control_exension_bit1(buf, disposal_method, delay, transparent_color_index) ==
    LET packed_fields == DisposalBits(disposal_method)
                         + (IF transparent_color_index.some THEN 2 ELSE 0)
    IN buf \o <<33, 249, 4, packed_fields>> \o to_le_bytes(delay)
           \o <<IF transparent_color_index.some THEN transparent_color_index.v ELSE 0>>
           \o <<0>>

\* GifWriter::write_graphic_control_exension
write_graphic_control_exension(buf, disposal_method, delay, transparent_color_index) ==
    LET packed_fields == DisposalBits(disposal_method)
                         + (IF transparent_color_index.some THEN 1 ELSE 0)
    IN buf \o <<33, 249, 4, packed_fields>> \o to_le_bytes(delay)
           \o <<IF transparent_color_index.some THEN transparent_color_index.v ELSE 0>>
           \o <<0>>

\* GifWriter::write_image_descriptor
write_image_descriptor(buf, left, top, w, h, local_palette, interlaced, checks) ==
    LET b1 == buf \o <<44>> \o to_le_bytes(left) \o to_le_bytes(top)
                  \o to_le_bytes(w) \o to_le_bytes(h)
        size == IF local_palette.some
                THEN TableSizeField(Len(local_palette.v), checks)
                ELSE [panic |-> FALSE, v |-> 0]
        packed_fields == (IF local_palette.some THEN 128 + size.v ELSE 0)
                         + (IF interlaced THEN 64 ELSE 0)
        b2 == b1 \o <<packed_fields>>
                 \o (IF local_palette.some THEN Flatten(local_palette.v) ELSE <<>>)
                 \o <<calculate_min_code_size(local_palette)>>
    IN IF size.panic THEN [buffer |-> b1, panic |-> TRUE]
       ELSE [buffer |-> b2, panic |-> FALSE]

\* GifWriter::write_frame_trailer
write_frame_trailer(buf) == Append(buf, 0)

\* A trailer writer that writes nothing
write_no_trailer(buf) == buf

\* GifWriter::write_gif_trailer
write_gif_trailer(buf) == Append(buf, 59)

\* (a..h).step_by(step) as a sequence
RECURSIVE StepBy(_, _, _)
StepBy(a, h, step) == IF a >= h THEN <<>> ELSE <<a>> \o StepBy(a + step, h, step)

\* The row order encode_interlaced_data builds (lines 234-254)
row_indices(h) ==
    StepBy(0, h, 8) \o StepBy(1, h, 8) \o StepBy(2, h, 4) \o StepBy(3, h, 4)

\* The copy loop of encode_interlaced_data (lines 257-261): [data, panic]
RECURSIVE CopyRows(_, _, _, _, _)
CopyRows(rows, data, w, acc, checks) ==
    IF rows = <<>> THEN [data |-> acc, panic |-> FALSE]
    ELSE LET product == Head(rows) * w
             row_start == product % 65536
             row_end == row_start + w
         IN IF (product >= 65536 /\ checks) \/ row_end > Len(data)
            THEN [data |-> acc, panic |-> TRUE]
            ELSE CopyRows(Tail(rows), data, w,
                          acc \o SubSeq(data, row_start + 1, row_end), checks)

\* GifWriter::encode_interlaced_data
encode_interlaced_data(data, w, h, checks) ==
    CopyRows(row_indices(h), data, w, <<>>, checks)

\* A sub-block loop that cuts after 256 bytes; the length byte is `as u8`.
RECURSIVE Chunks256(_)
Chunks256(data) ==
    IF data = <<>> THEN <<>>
    ELSE LET n == IF Len(data) < 256 THEN Len(data) ELSE 256
         IN <<n % 256>> \o Take(data, n) \o Chunks256(Drop(data, n))

\* The sub-block loop of the FlushFrame arm (lines 166-170)
RECURSIVE Chunks255(_)
Chunks255(data) ==
    IF data = <<>> THEN <<>>
    ELSE LET n == IF Len(data) < 255 THEN Len(data) ELSE 255
         IN <<n>> \o Take(data, n) \o Chunks255(Drop(data, n))

----------------------------------------------------------------------------
(* GifDemuxer (src/src/demuxer.rs).  A nom parser returns Ok((rest, value)) *)
(* or Err; here it returns a record with `ok`, `rest` and the value.  Every *)
(* Err (Error or Incomplete) is treated alike by the callers.               *)

Fail == [ok |-> FALSE, rest |-> <<>>]

\* String::from_utf8_lossy, as a sequence of code points: a well-formed
\* UTF-8 sequence gives its code point, and each maximal ill-formed prefix
\* gives U+FFFD (65533).
Utf8Need(b1) ==
    IF b1 \in 194..223 THEN 2
    ELSE IF b1 \in 224..239 THEN 3
    ELSE IF b1 \in 240..244 THEN 4
    ELSE 0

Utf8Second(b1) ==
    CASE b1 = 224 -> 160..191
      [] b1 = 237 -> 128..159
      [] b1 = 240 -> 144..191
      [] b1 = 244 -> 128..143
      [] OTHER -> 128..191

Utf8Matched(b) ==
    LET need == Utf8Need(b[1])
        k2 == need >= 2 /\ Len(b) >= 2 /\ b[2] \in Utf8Second(b[1])
        k3 == k2 /\ need >= 3 /\ Len(b) >= 3 /\ b[3] \in 128..191
        k4 == k3 /\ need >= 4 /\ Len(b) >= 4 /\ b[4] \in 128..191
    IN IF k4 THEN 4 ELSE IF k3 THEN 3 ELSE IF k2 THEN 2 ELSE 1

Utf8CodePoint(b, n) ==
    CASE n = 2 -> (b[1] - 192) * 64 + (b[2] - 128)
      [] n = 3 -> (b[1] - 224) * 4096 + (b[2] - 128) * 64 + (b[3] - 128)
      [] n = 4 -> (b[1] - 240) * 262144 + (b[2] - 128) * 4096
                  + (b[3] - 128) * 64 + (b[4] - 128)

RECURSIVE from_utf8_lossy(_)
from_utf8_lossy(b) ==
    IF b = <<>> THEN <<>>
    ELSE IF b[1] < 128 THEN <<b[1]>> \o from_utf8_lossy(Tail(b))
    ELSE LET need == Utf8Need(b[1])
             k == Utf8Matched(b)
         IN IF need # 0 /\ k = need
            THEN <<Utf8CodePoint(b, need)>> \o from_utf8_lossy(Drop(b, need))
            ELSE <<65533>> \o from_utf8_lossy(Drop(b, k))

\* GifDemuxer::new
NewDemuxer ==
    [screen_width |-> 0, screen_height |-> 0, packed_fields |-> 0,
     background_color_index |-> 0, pixel_aspect_ratio |-> 0,
     global_color_table |-> <<>>, frames |-> <<>>, current_frame |-> 0,
     comments |-> <<>>, plain_texts |-> <<>>, applications |-> <<>>]

\* A header parser that looks at "GIF" and takes any three version bytes
parse_header_any_version(input) ==
    IF Len(input) >= 6 /\ Take(input, 3) = <<71, 73, 70>>
    THEN [ok |-> TRUE, rest |-> Drop(input, 6)]
    ELSE Fail

\* GifDemuxer::parse_header
parse_header(input) ==
    IF Len(input) >= 6 /\ Take(input, 6) \in {Sig87a, Sig89a}
    THEN [ok |-> TRUE, rest |-> Drop(input, 6)]
    ELSE Fail

\* GifDemuxer::parse_logical_screen_descriptor
parse_logical_screen_descriptor(input) ==
    IF Len(input) >= 7
    THEN [ok |-> TRUE, rest |-> Drop(input, 7),
          width |-> from_le_bytes(input[1], input[2]),
          height |-> from_le_bytes(input[3], input[4]),
          packed_fields |-> input[5],
          background_color_index |-> input[6],
          pixel_aspect_ratio |-> input[7]]
    ELSE Fail

\* GifDemuxer::parse_global_color_table
parse_global_color_table(input, packed_fields) ==
    IF BitAnd(packed_fields, 128) # 0
    THEN LET size == 3 * Pow2(BitAnd(packed_fields, 7) + 1)
         IN IF Len(input) >= size
            THEN [ok |-> TRUE, rest |-> Drop(input, size), table |-> Take(input, size)]
            ELSE Fail
    ELSE [ok |-> TRUE, rest |-> input, table |-> <<>>]

\* The sub-block loop of the comment, plain-text and application extensions
\* and of the image data (lines 98-107, 135-145, 176-186, 290-300).
RECURSIVE SubBlocks(_)
SubBlocks(input) ==
    IF input = <<>> THEN Fail
    ELSE LET block_size == input[1] IN
         IF block_size = 0
         THEN [ok |-> TRUE, rest |-> Tail(input), data |-> <<>>]
         ELSE IF Len(input) < 1 + block_size THEN Fail
         ELSE LET more == SubBlocks(Drop(input, 1 + block_size))
              IN IF more.ok
                 THEN [ok |-> TRUE, rest |-> more.rest,
                       data |-> SubSeq(input, 2, 1 + block_size) \o more.data]
                 ELSE Fail

\* GifDemuxer::parse_comment_extension
parse_comment_extension(input) ==
    LET sub == SubBlocks(input)
    IN IF sub.ok
       THEN [ok |-> TRUE, rest |-> sub.rest,
             value |-> [text |-> from_utf8_lossy(sub.data)]]
       ELSE Fail

\* GifDemuxer::parse_plain_text_extension
parse_plain_text_extension(input) ==
    IF Len(input) >= 13 /\ input[1] = 12
    THEN LET sub == SubBlocks(Drop(input, 13))
         IN IF sub.ok
            THEN [ok |-> TRUE, rest |-> sub.rest,
                  value |-> [text_grid_left |-> from_le_bytes(input[2], input[3]),
                             text_grid_top |-> from_le_bytes(input[4], input[5]),
                             text_grid_width |-> from_le_bytes(input[6], input[7]),
                             text_grid_height |-> from_le_bytes(input[8], input[9]),
                             char_cell_width |-> input[10],
                             char_cell_height |-> input[11],
                             text_foreground_color_index |-> input[12],
                             text_background_color_index |-> input[13],
                             text |-> from_utf8_lossy(sub.data)]]
            ELSE Fail
    ELSE Fail

\* GifDemuxer::parse_application_extension
parse_application_extension(input) ==
    IF Len(input) >= 12 /\ input[1] = 11
    THEN LET sub == SubBlocks(Drop(input, 12))
         IN IF sub.ok
            THEN [ok |-> TRUE, rest |-> sub.rest,
                  value |-> [identifier |-> from_utf8_lossy(SubSeq(input, 2, 9)),
                             auth_code |-> SubSeq(input, 10, 12),
                             data |-> sub.data]]
            ELSE Fail
    ELSE Fail

\* GifDemuxer::parse_graphics_control_extension
parse_graphics_control_extension(input) ==
    IF Len(input) >= 6 /\ input[1] = 4 /\ input[6] = 0
    THEN [ok |-> TRUE, rest |-> Drop(input, 6),
          value |-> [disposal_method |-> BitAnd(input[2] \div 4, 7),
                     user_input_flag |-> BitAnd(input[2], 2) # 0,
                     transparent_color_flag |-> BitAnd(input[2], 1) # 0,
                     delay_time |-> from_le_bytes(input[3], input[4]),
                     transparent_color_index |-> input[5]]]
    ELSE Fail

\* GifDemuxer::parse_image_descriptor
parse_image_descriptor(input) ==
    IF Len(input) >= 10 /\ input[1] = 44
    THEN LET packed_fields == input[10]
             lct == parse_global_color_table(Drop(input, 10), packed_fields)
         IN IF lct.ok /\ lct.rest # <<>>
            THEN LET sub == SubBlocks(Tail(lct.rest))
                 IN IF sub.ok
                    THEN [ok |-> TRUE, rest |-> sub.rest,
                          value |-> [left |-> from_le_bytes(input[2], input[3]),
                                     top |-> from_le_bytes(input[4], input[5]),
                                     width |-> from_le_bytes(input[6], input[7]),
                                     height |-> from_le_bytes(input[8], input[9]),
                                     packed_fields |-> packed_fields,
                                     local_color_table |-> lct.table,
                                     min_code_size |-> Head(lct.rest),
                                     data |-> sub.data,
                                     gce |-> None]]
                    ELSE Fail
            ELSE Fail
    ELSE Fail

\* What parse_block's Ok carries: Some((Some(extension), None)),
\* Some((None, Some(frame))) or None.
Parsed(kind, r) ==
    IF r.ok THEN [ok |-> TRUE, rest |-> r.rest, kind |-> kind, value |-> r.value]
    ELSE [ok |-> FALSE, rest |-> <<>>, kind |-> "Err", value |-> <<>>]

Skipped(rest) == [ok |-> TRUE, rest |-> rest, kind |-> "None", value |-> <<>>]

\* A parse_block whose unknown-block arm hands back its whole input
parse_block_keeping_unknown(input) ==
    IF input = <<>> THEN Parsed("Err", Fail)
    ELSE LET block_type == input[1]
             current_input == Tail(input)
         IN CASE block_type = 33 ->
                   IF current_input = <<>> THEN Parsed("Err", Fail)
                   ELSE LET label == current_input[1]
                            after == Tail(current_input)
                        IN CASE label = 249 ->
                                  Parsed("GraphicsControl",
                                         parse_graphics_control_extension(after))
                             [] label = 254 ->
                                  Parsed("Comment", parse_comment_extension(after))
                             [] label = 1 ->
                                  Parsed("PlainText", parse_plain_text_extension(after))
                             [] label = 255 ->
                                  Parsed("Application", parse_application_extension(after))
                             [] OTHER -> Skipped(after)
              [] block_type = 44 -> Parsed("Frame", parse_image_descriptor(input))
              [] block_type = 59 -> Skipped(current_input)
              [] OTHER -> Skipped(input)

\* GifDemuxer::parse_block
parse_block(input) ==
    IF input = <<>> THEN Parsed("Err", Fail)
    ELSE LET block_type == input[1]
             current_input == Tail(input)
         IN CASE block_type = 33 ->
                   IF current_input = <<>> THEN Parsed("Err", Fail)
                   ELSE LET label == current_input[1]
                            after == Tail(current_input)
                        IN CASE label = 249 ->
                                  Parsed("GraphicsControl",
                                         parse_graphics_control_extension(after))
                             [] label = 254 ->
                                  Parsed("Comment", parse_comment_extension(after))
                             [] label = 1 ->
                                  Parsed("PlainText", parse_plain_text_extension(after))
                             [] label = 255 ->
                                  Parsed("Application", parse_application_extension(after))
                             [] OTHER -> Skipped(after)
              [] block_type = 44 -> Parsed("Frame", parse_image_descriptor(input))
              [] block_type = 59 -> Skipped(current_input)
              [] OTHER -> Skipped(current_input)

\* parse_gif up to the block loop (lines 316-335): [res, demuxer, rest]
ParseGifHead(self, input) ==
    LET hdr == parse_header(input)
        lsd == parse_logical_screen_descriptor(hdr.rest)
        screen == [self EXCEPT !.screen_width = lsd.width,
                               !.screen_height = lsd.height,
                               !.packed_fields = lsd.packed_fields,
                               !.background_color_index = lsd.background_color_index,
                               !.pixel_aspect_ratio = lsd.pixel_aspect_ratio]
        gct == parse_global_color_table(lsd.rest, lsd.packed_fields)
    IN IF ~hdr.ok THEN [res |-> "err", demuxer |-> self, rest |-> <<>>]
       ELSE IF ~lsd.ok THEN [res |-> "err", demuxer |-> self, rest |-> <<>>]
       ELSE IF ~gct.ok THEN [res |-> "err", demuxer |-> screen, rest |-> <<>>]
       ELSE [res |-> "ok",
             demuxer |-> [screen EXCEPT !.global_color_table = gct.table],
             rest |-> gct.rest]

\* A loop body that keeps pending_gce after it attached it to a frame.
ParseGifIterKeepingGce(st) ==
    LET block == parse_block(st.rest)
    IN IF ~block.ok THEN [st EXCEPT !.looping = FALSE]
       ELSE CASE block.kind = "GraphicsControl" ->
                   [st EXCEPT !.rest = block.rest, !.pending_gce = Some(block.value)]
              [] block.kind = "Comment" ->
                   [st EXCEPT !.rest = block.rest,
                              !.demuxer.comments = Append(@, block.value)]
              [] block.kind = "PlainText" ->
                   [st EXCEPT !.rest = block.rest,
                              !.demuxer.plain_texts = Append(@, block.value)]
              [] block.kind = "Application" ->
                   [st EXCEPT !.rest = block.rest,
                              !.demuxer.applications = Append(@, block.value)]
              [] block.kind = "Frame" ->
                   [st EXCEPT !.rest = block.rest,
                              !.demuxer.frames =
                                  Append(@, [block.value EXCEPT !.gce = st.pending_gce])]
              [] block.kind = "None" ->
                   [st EXCEPT !.rest = block.rest]

\* A loop body that steps over one byte when parse_block fails, and goes on.
ParseGifIterResuming(st) ==
    LET block == parse_block(st.rest)
    IN IF ~block.ok THEN [st EXCEPT !.rest = Tail(st.rest)]
       ELSE CASE block.kind = "GraphicsControl" ->
                   [st EXCEPT !.rest = block.rest, !.pending_gce = Some(block.value)]
              [] block.kind = "Comment" ->
                   [st EXCEPT !.rest = block.rest,
                              !.demuxer.comments = Append(@, block.value)]
              [] block.kind = "PlainText" ->
                   [st EXCEPT !.rest = block.rest,
                              !.demuxer.plain_texts = Append(@, block.value)]
              [] block.kind = "Application" ->
                   [st EXCEPT !.rest = block.rest,
                              !.demuxer.applications = Append(@, block.value)]
              [] block.kind = "Frame" ->
                   [st EXCEPT !.rest = block.rest,
                              !.demuxer.frames =
                                  Append(@, [block.value EXCEPT !.gce = st.pending_gce]),
                              !.pending_gce = None]
              [] block.kind = "None" ->
                   [st EXCEPT !.rest = block.rest]

\* One iteration of `while !input.is_empty()` (lines 339-367), on
\* [demuxer, rest, pending_gce, looping]; `block` is what parse_block gave.
ParseGifIter(st) ==
    LET block == parse_block(st.rest)
        self == st.demuxer
    IN IF ~block.ok THEN [st EXCEPT !.looping = FALSE]
       ELSE CASE block.kind = "GraphicsControl" ->
                   [st EXCEPT !.rest = block.rest, !.pending_gce = Some(block.value)]
              [] block.kind = "Comment" ->
                   [st EXCEPT !.rest = block.rest,
                              !.demuxer.comments = Append(@, block.value)]
              [] block.kind = "PlainText" ->
                   [st EXCEPT !.rest = block.rest,
                              !.demuxer.plain_texts = Append(@, block.value)]
              [] block.kind = "Application" ->
                   [st EXCEPT !.rest = block.rest,
                              !.demuxer.applications = Append(@, block.value)]
              [] block.kind = "Frame" ->
                   [st EXCEPT !.rest = block.rest,
                              !.demuxer.frames =
                                  Append(@, [block.value EXCEPT !.gce = st.pending_gce]),
                              !.pending_gce = None]
              [] block.kind = "None" ->
                   [st EXCEPT !.rest = block.rest]

RECURSIVE ParseGifLoop(_)
ParseGifLoop(st) ==
    IF st.looping /\ st.rest # <<>> THEN ParseGifLoop(ParseGifIter(st)) ELSE st

\* GifDemuxer::parse_gif: [res, demuxer]
parse_gif(self, input) ==
    LET head == ParseGifHead(self, input)
        done == ParseGifLoop([demuxer |-> head.demuxer, rest |-> head.rest,
                              pending_gce |-> None, looping |-> TRUE])
    IN IF head.res = "err" THEN [res |-> "err", demuxer |-> head.demuxer]
       ELSE [res |-> "ok", demuxer |-> done.demuxer]

\* GifDemuxer::get_loop_count
get_loop_count(self) ==
    LET found == {i \in 1..Len(self.applications) :
                     /\ self.applications[i].identifier = <<78, 69, 84, 83, 67, 65, 80, 69>>
                     /\ self.applications[i].auth_code = <<50, 46, 48>>}
    IN IF found = {} THEN None
       ELSE LET app == self.applications[CHOOSE i \in found : \A j \in found : i <= j]
            IN IF Len(app.data) >= 3 /\ app.data[1] = 1
               THEN Some(from_le_bytes(app.data[2], app.data[3]))
               ELSE None

----------------------------------------------------------------------------
(* GifEvent and the inputs the model feeds to process_event. *)

EventKinds == {"StartGif", "StartFrame", "WriteImageChunk", "FlushFrame",
               "EndFrame", "EndGif"}

NoEvent ==
    [kind |-> "none", width |-> 0, height |-> 0, palette |-> None,
     background_color_index |-> 0, loop_count |-> None, delay |-> 0,
     disposal_method |-> "None", transparent_color_index |-> None,
     is_interlaced |-> FALSE, data |-> <<>>]

StartGifEvent(w, h, global_palette, background_color_index, loops) ==
    [NoEvent EXCEPT !.kind = "StartGif", !.width = w, !.height = h,
                    !.palette = global_palette,
                    !.background_color_index = background_color_index,
                    !.loop_count = loops]

StartFrameEvent(delay, disposal_method, local_palette, transparent_color_index, interlaced) ==
    [NoEvent EXCEPT !.kind = "StartFrame", !.delay = delay,
                    !.disposal_method = disposal_method,
                    !.palette = local_palette,
                    !.transparent_color_index = transparent_color_index,
                    !.is_interlaced = interlaced]

WriteImageChunkEvent(data) ==
    [NoEvent EXCEPT !.kind = "WriteImageChunk", !.data = data]

PlainEvent(kind) == [NoEvent EXCEPT !.kind = kind]

\* A palette of n colors
Palette(n) == [i \in 1..n |-> <<(40 * i) % 256, (40 * i + 1) % 256, (40 * i + 2) % 256>>]

StartGifEvents ==
    { StartGifEvent(2, 2, None, 0, None),
      StartGifEvent(300, 1, Some(Palette(2)), 1, Some(0)),
      StartGifEvent(2, 2, Some(Palette(3)), 0, None) }

StartFrameEvents ==
    { StartFrameEvent(0, "None", None, None, FALSE),
      StartFrameEvent(258, "Keep", Some(Palette(2)), Some(1), TRUE),
      StartFrameEvent(1, "Previous", Some(Palette(3)), None, FALSE) }

WriteImageChunkEvents ==
    { WriteImageChunkEvent(<<>>), WriteImageChunkEvent(<<1, 0, 1, 0>>) }

\* The parameters of StartGif and StartFrame, each over its range's ends.
ParamGifEvents ==
    { StartGifEvent(w, h, p, b, l) :
        w \in {2, 300}, h \in {1, 513},
        p \in {None, Some(Palette(1)), Some(Palette(2)), Some(Palette(3)),
               Some(Palette(4))},
        b \in {0, 255}, l \in {None, Some(0), Some(258)} }

ParamFrameEvents ==
    { StartFrameEvent(d, m, p, t, i) :
        d \in {0, 258, 65535}, m \in {"None", "Keep", "Background", "Previous"},
        p \in {None, Some(Palette(2))}, t \in {None, Some(0), Some(255)},
        i \in BOOLEAN }

\* StartGif and StartFrame over palette lengths from 1 to 256
PaletteLens == {1, 2, 3, 4, 8, 16, 32, 64, 128, 200, 256}

Palettes == {None} \cup {Some(Palette(n)) : n \in PaletteLens}

PaletteGifEvents ==
    { StartGifEvent(2, 2, p, 0, l) : p \in Palettes, l \in {None, Some(0)} }

PaletteFrameEvents ==
    { StartFrameEvent(0, "None", p, None, i) : p \in Palettes, i \in BOOLEAN }

\* Pixels in which no pair of neighbours occurs twice, so that every pixel
\* after the first takes the insert branch of encode_chunk.
TestPixels(n) == [i \in 1..n |-> (((i - 1) % 256) * (2 * ((i - 1) \div 256) + 1)) % 256]

LongChunkEvents ==
    { WriteImageChunkEvent(TestPixels(n)) :
        n \in (0..50) \cup (507..510) \cup (1017..1020) }

\* One event of every kind, for the calls the state machine rejects.
ProbeEvents ==
    { StartGifEvent(2, 2, None, 0, None),
      StartFrameEvent(0, "None", None, None, FALSE),
      WriteImageChunkEvent(<<1, 0, 1, 0>>),
      PlainEvent("FlushFrame"), PlainEvent("EndFrame"), PlainEvent("EndGif") }

----------------------------------------------------------------------------
(* GifEncoderState::process_event (src/src/encoder.rs:81-200). *)

\* The match with one arm more: FlushFrame accepted while FlushingFrame.
AcceptsFlushTwice(s, kind) ==
    \/ s = "Idle" /\ kind = "StartGif"
    \/ s = "WritingHeader" /\ kind = "StartFrame"
    \/ s = "WritingFrame" /\ kind = "WriteImageChunk"
    \/ s \in {"WritingFrame", "FlushingFrame"} /\ kind = "FlushFrame"
    \/ s \in {"WritingFrame", "FlushingFrame"} /\ kind = "EndFrame"
    \/ s = "WritingHeader" /\ kind = "EndGif"

\* The arms of the match on (&self.state, event), lines 83-196.
Accepts(s, kind) ==
    \/ s = "Idle" /\ kind = "StartGif"
    \/ s = "WritingHeader" /\ kind = "StartFrame"
    \/ s = "WritingFrame" /\ kind = "WriteImageChunk"
    \/ s = "WritingFrame" /\ kind = "FlushFrame"
    \/ s = "FlushingFrame" /\ kind = "EndFrame"
    \/ s = "WritingFrame" /\ kind = "EndFrame"
    \/ s = "WritingHeader" /\ kind = "EndGif"

RECURSIVE ChunksLogged(_)
ChunksLogged(log) ==
    IF log = <<>> THEN 0 ELSE Head(log).nchunks + ChunksLogged(Tail(log))

\* WriteImageChunk calls made since construction
TotalChunks == nchunks + ChunksLogged(frame_log)

Called(ev) ==
    /\ ~panicked
    /\ lastEvent' = ev
    /\ prevLen' = Len(buffer)
    /\ prevState' = state
    /\ UNCHANGED parseVars

\* (Idle, StartGif), lines 83-107
StartGif(ev) ==
    /\ Accepts(state, ev.kind) /\ ev.kind = "StartGif"
    /\ Called(ev)
    /\ \E checks \in BOOLEAN :
         LET w == write_gif_header(buffer, ev.width, ev.height,
                                   ev.background_color_index, ev.palette,
                                   ev.loop_count, checks)
         IN /\ state' = "WritingHeader"
            /\ buffer' = w.buffer
            /\ panicked' = w.panic
            /\ width' = IF w.panic THEN width ELSE ev.width
            /\ height' = IF w.panic THEN height ELSE ev.height
            /\ loop_count' = IF w.panic THEN loop_count ELSE ev.loop_count
            /\ result' = IF w.panic THEN "none" ELSE "ok"
    /\ UNCHANGED <<lzw_encoder, frame_count, is_interlaced, compressed_buffer,
                   nchunks, frame_codes, frame_log>>

\* (WritingHeader, StartFrame), lines 109-141
StartFrame(ev) ==
    /\ Accepts(state, ev.kind) /\ ev.kind = "StartFrame"
    /\ frame_count < MaxFrames
    /\ Called(ev)
    /\ \E checks \in BOOLEAN :
         LET g == write_graphic_control_exension(buffer, ev.disposal_method,
                                                 ev.delay, ev.transparent_color_index)
             w == write_image_descriptor(g, 0, 0, width, height, ev.palette,
                                         ev.is_interlaced, checks)
         IN /\ state' = "WritingFrame"
            /\ buffer' = w.buffer
            /\ panicked' = w.panic
            /\ is_interlaced' = IF w.panic THEN is_interlaced ELSE ev.is_interlaced
            /\ result' = IF w.panic THEN "none" ELSE "ok"
    /\ UNCHANGED <<lzw_encoder, frame_count, width, height, loop_count,
                   compressed_buffer, nchunks, frame_codes, frame_log>>

\* (WritingFrame, WriteImageChunk), lines 143-160
WriteImageChunk(ev) ==
    /\ Accepts(state, ev.kind) /\ ev.kind = "WriteImageChunk"
    /\ TotalChunks < MaxChunks
    /\ Called(ev)
    /\ \E checks \in BOOLEAN :
         LET il == IF is_interlaced
                   THEN encode_interlaced_data(ev.data, width, height, checks)
                   ELSE [data |-> ev.data, panic |-> FALSE]
             l == IF il.panic THEN lzw_encoder
                  ELSE finalize(encode_chunk(lzw_encoder, il.data))
             unwound == il.panic \/ l.panic
         IN /\ lzw_encoder' = l
            /\ panicked' = unwound
            /\ compressed_buffer' = IF unwound THEN compressed_buffer
                                    ELSE compressed_buffer \o get_encoded_data(l)
            /\ frame_codes' = IF unwound THEN frame_codes
                              ELSE frame_codes \o l.emitted
            /\ result' = IF unwound THEN "none" ELSE "ok"
    /\ nchunks' = nchunks + 1
    /\ UNCHANGED <<state, buffer, frame_count, width, height, loop_count,
                   is_interlaced, frame_log>>

\* (WritingFrame, FlushFrame), lines 162-177
FlushFrame(ev) ==
    /\ Accepts(state, ev.kind) /\ ev.kind = "FlushFrame"
    /\ Called(ev)
    /\ buffer' = Append(buffer \o Chunks255(compressed_buffer), 0)
    /\ state' = "FlushingFrame"
    /\ result' = "ok"
    /\ UNCHANGED <<lzw_encoder, frame_count, width, height, loop_count,
                   is_interlaced, compressed_buffer, panicked, nchunks,
                   frame_codes, frame_log>>

\* An EndFrame arm that writes the frame buffer's sub-blocks when no
\* FlushFrame did.
EndFrameFlushing(ev) ==
    /\ Accepts(state, ev.kind) /\ ev.kind = "EndFrame"
    /\ Called(ev)
    /\ state' = "WritingHeader"
    /\ buffer' = write_frame_trailer(IF state = "WritingFrame"
                                     THEN buffer \o Chunks255(compressed_buffer)
                                     ELSE buffer)
    /\ frame_count' = frame_count + 1
    /\ compressed_buffer' = <<>>
    /\ lzw_encoder' = LzwReset(lzw_encoder)
    /\ result' = "ok"
    /\ nchunks' = 0
    /\ frame_codes' = <<>>
    /\ frame_log' = Append(frame_log, [flushed |-> state = "FlushingFrame",
                                        nchunks |-> nchunks,
                                        data |-> compressed_buffer])
    /\ UNCHANGED <<width, height, loop_count, is_interlaced, panicked>>

\* (FlushingFrame, EndFrame) | (WritingFrame, EndFrame), lines 179-189
EndFrame(ev) ==
    /\ Accepts(state, ev.kind) /\ ev.kind = "EndFrame"
    /\ Called(ev)
    /\ state' = "WritingHeader"
    /\ buffer' = write_frame_trailer(buffer)
    /\ frame_count' = frame_count + 1
    /\ compressed_buffer' = <<>>
    /\ lzw_encoder' = LzwReset(lzw_encoder)
    /\ result' = "ok"
    /\ nchunks' = 0
    /\ frame_codes' = <<>>
    /\ frame_log' = Append(frame_log, [flushed |-> state = "FlushingFrame",
                                        nchunks |-> nchunks,
                                        data |-> compressed_buffer])
    /\ UNCHANGED <<width, height, loop_count, is_interlaced, panicked>>

\* (WritingHeader, EndGif), lines 191-196
EndGif(ev) ==
    /\ Accepts(state, ev.kind) /\ ev.kind = "EndGif"
    /\ Called(ev)
    /\ buffer' = write_gif_trailer(buffer)
    /\ state' = "Done"
    /\ result' = "ok"
    /\ UNCHANGED <<lzw_encoder, frame_count, width, height, loop_count,
                   is_interlaced, compressed_buffer, panicked, nchunks,
                   frame_codes, frame_log>>

\* A fallback arm that drops the frame buffer before it returns Err.
InvalidTransitionClearing(ev) ==
    /\ ~Accepts(state, ev.kind)
    /\ Called(ev)
    /\ result' = "err"
    /\ compressed_buffer' = <<>>
    /\ UNCHANGED <<state, buffer, lzw_encoder, frame_count, width, height,
                   loop_count, is_interlaced, panicked, nchunks, frame_codes,
                   frame_log>>

\* _ => Err("Invalid event for current state"), line 198
InvalidTransition(ev) ==
    /\ ~Accepts(state, ev.kind)
    /\ Called(ev)
    /\ result' = "err"
    /\ UNCHANGED <<encVars, panicked, nchunks, frame_codes, frame_log>>

----------------------------------------------------------------------------
(* The encoder as its test constructs it (src/src/encoder.rs:418-430). *)

EncoderInit ==
    /\ state = "Idle"
    /\ buffer = <<>>
    /\ lzw_encoder = LzwNew(2)
    /\ frame_count = 0
    /\ width = 0
    /\ height = 0
    /\ loop_count = None
    /\ is_interlaced = FALSE
    /\ compressed_buffer = <<>>
    /\ panicked = FALSE
    /\ lastEvent = NoEvent
    /\ result = "none"
    /\ prevLen = 0
    /\ prevState = "Idle"
    /\ nchunks = 0
    /\ frame_codes = <<>>
    /\ frame_log = <<>>

ParserIdle ==
    /\ p_input = <<>>
    /\ p_blocks = <<>>
    /\ p_rest = <<>>
    /\ p_pc = "idle"
    /\ demuxer = NewDemuxer
    /\ pending_gce = None
    /\ p_trace = <<>>

Init == EncoderInit /\ ParserIdle

\* The calls process_event accepts, over the events above.
Next ==
    \/ \E ev \in StartGifEvents : StartGif(ev)
    \/ \E ev \in StartFrameEvents : StartFrame(ev)
    \/ \E ev \in WriteImageChunkEvents : WriteImageChunk(ev)
    \/ FlushFrame(PlainEvent("FlushFrame"))
    \/ EndFrame(PlainEvent("EndFrame"))
    \/ EndGif(PlainEvent("EndGif"))

Spec == Init /\ [][Next]_vars

\* The same calls, with palettes of two entries or none.
TwoEntriesOrNone(ev) == ev.palette.some => Len(ev.palette.v) = 2

NextPowerOfTwo ==
    \/ \E ev \in {e \in StartGifEvents : TwoEntriesOrNone(e)} : StartGif(ev)
    \/ \E ev \in {e \in StartFrameEvents : TwoEntriesOrNone(e)} : StartFrame(ev)
    \/ \E ev \in WriteImageChunkEvents : WriteImageChunk(ev)
    \/ FlushFrame(PlainEvent("FlushFrame"))
    \/ EndFrame(PlainEvent("EndFrame"))
    \/ EndGif(PlainEvent("EndGif"))

SpecPowerOfTwo == Init /\ [][NextPowerOfTwo]_vars

\* Every call of process_event, accepted or not, with one event per kind.
NextCalls ==
    \E ev \in ProbeEvents :
        \/ StartGif(ev)
        \/ StartFrame(ev)
        \/ WriteImageChunk(ev)
        \/ FlushFrame(ev)
        \/ EndFrame(ev)
        \/ EndGif(ev)
        \/ InvalidTransition(ev)

SpecCalls == Init /\ [][NextCalls]_vars

\* StartGif and the first StartFrame, over the parameter ranges.
NextParams ==
    \/ \E ev \in ParamGifEvents : StartGif(ev)
    \/ \E ev \in ParamFrameEvents : StartFrame(ev)

SpecParams == Init /\ [][NextParams]_vars

\* StartGif and the first StartFrame, over the palette lengths.
NextPalettes ==
    \/ \E ev \in PaletteGifEvents : StartGif(ev)
    \/ \E ev \in PaletteFrameEvents : StartFrame(ev)

SpecPalettes == Init /\ [][NextPalettes]_vars

\* encode_chunk and finalize on the constructed encoder, one pixel per step.
\* lastEvent.data is the part of the chunk the loop has consumed.
MaxPixels == 5

PixelValues == {0, 1, 255}

\* lzw.rs:39-41, the clear code before the loop
EncodeChunkEnter ==
    /\ lastEvent.kind = "none"
    /\ lzw_encoder' = IF lzw_encoder.output = <<>>
                      THEN write_code(lzw_encoder, clear_code)
                      ELSE lzw_encoder
    /\ lastEvent' = WriteImageChunkEvent(<<>>)
    /\ UNCHANGED <<state, buffer, frame_count, width, height, loop_count,
                   is_interlaced, compressed_buffer, panicked, result, prevLen,
                   prevState, nchunks, frame_codes, frame_log, parseVars>>

\* lzw.rs:43-73, one iteration of `for &pixel in chunk`
EncodeChunkPixel(pixel) ==
    /\ lastEvent.kind = "WriteImageChunk" /\ result = "none"
    /\ Len(lastEvent.data) < MaxPixels
    /\ lzw_encoder' = EncodePixel(lzw_encoder, pixel)
    /\ lastEvent' = WriteImageChunkEvent(Append(lastEvent.data, pixel))
    /\ UNCHANGED <<state, buffer, frame_count, width, height, loop_count,
                   is_interlaced, compressed_buffer, panicked, result, prevLen,
                   prevState, nchunks, frame_codes, frame_log, parseVars>>

\* lzw.rs:76-89 after the loop's end (encoder.rs:153)
EncodeChunkFinalize ==
    /\ lastEvent.kind = "WriteImageChunk" /\ result = "none"
    /\ lzw_encoder' = finalize(lzw_encoder)
    /\ result' = "ok"
    /\ nchunks' = nchunks + 1
    /\ frame_codes' = lzw_encoder'.emitted
    /\ UNCHANGED <<state, buffer, frame_count, width, height, loop_count,
                   is_interlaced, compressed_buffer, panicked, lastEvent, prevLen,
                   prevState, frame_log, parseVars>>

NextLzw ==
    \/ EncodeChunkEnter
    \/ \E pixel \in PixelValues : EncodeChunkPixel(pixel)
    \/ EncodeChunkFinalize

SpecLzw == Init /\ [][NextLzw]_vars

\* The public methods of the constructed encoder called in any order:
\* encode_chunk with a chunk of up to two pixels, finalize and reset, while
\* fewer than MaxCodes codes have been written.
MaxCodes == 7

\* lzw.rs:37-74
LzwEncodeChunk(chunk) ==
    /\ Len(lzw_encoder.emitted) < MaxCodes
    /\ lzw_encoder' = encode_chunk(lzw_encoder, chunk)
    /\ UNCHANGED <<state, buffer, frame_count, width, height, loop_count,
                   is_interlaced, compressed_buffer, obsVars, parseVars>>

\* lzw.rs:76-89
LzwFinalize ==
    /\ Len(lzw_encoder.emitted) < MaxCodes
    /\ lzw_encoder' = finalize(lzw_encoder)
    /\ UNCHANGED <<state, buffer, frame_count, width, height, loop_count,
                   is_interlaced, compressed_buffer, obsVars, parseVars>>

\* lzw.rs:119-124
LzwResetCall ==
    /\ Len(lzw_encoder.emitted) < MaxCodes
    /\ lzw_encoder' = LzwReset(lzw_encoder)
    /\ UNCHANGED <<state, buffer, frame_count, width, height, loop_count,
                   is_interlaced, compressed_buffer, obsVars, parseVars>>

NextLzwCalls ==
    \/ \E chunk \in UNION {[1..n -> {0, 1}] : n \in 0..2} : LzwEncodeChunk(chunk)
    \/ LzwFinalize
    \/ LzwResetCall

SpecLzwCalls == Init /\ [][NextLzwCalls]_vars

\* encode_chunk close to a full dictionary: the encoder inside the first
\* WriteImageChunk of a 100 x 100 frame with a local palette of 64 colors,
\* after the clear code and the first NearlyFullLen pixels of the chunk.
\* lastEvent.data is the part of the chunk the loop has consumed since.
NearlyFullLen == 5626

SixBitPixels(n) == [i \in 1..n |-> (((i - 1) % 64) * (2 * ((i - 1) \div 64) + 1)) % 64]

FullInit ==
    /\ state = "WritingFrame"
    /\ buffer = write_image_descriptor(
                    write_graphic_control_exension(
                        write_gif_header(<<>>, 100, 100, 0, None, None, FALSE).buffer,
                        "None", 0, None),
                    0, 0, 100, 100, Some(Palette(64)), FALSE, FALSE).buffer
    /\ lzw_encoder = EncodePixels(write_code(LzwNew(2), clear_code),
                                  SixBitPixels(NearlyFullLen))
    /\ frame_count = 0
    /\ width = 100
    /\ height = 100
    /\ loop_count = None
    /\ is_interlaced = FALSE
    /\ compressed_buffer = <<>>
    /\ panicked = FALSE
    /\ lastEvent = WriteImageChunkEvent(<<>>)
    /\ result = "none"
    /\ prevLen = Len(buffer)
    /\ prevState = "WritingFrame"
    /\ nchunks = 0
    /\ frame_codes = <<>>
    /\ frame_log = <<>>
    /\ ParserIdle

NextFull ==
    \/ \E pixel \in {0, 1, 63} : EncodeChunkPixel(pixel)
    \/ EncodeChunkFinalize

SpecFull == FullInit /\ [][NextFull]_vars

\* One chunk holding a whole frame, interlaced or not, over widths and
\* heights: row r of the chunk is filled with the pixel value r.
MaxHeight == 9

RowPixels(w, h) == [i \in 1..(w * h) |-> (i - 1) \div w]

InterlaceGifEvents ==
    { StartGifEvent(w, h, None, 0, None) : w \in 1..3, h \in 1..MaxHeight }

InterlaceFrameEvents ==
    { StartFrameEvent(0, "None", None, None, i) : i \in BOOLEAN }

NextInterlace ==
    \/ \E ev \in InterlaceGifEvents : StartGif(ev)
    \/ \E ev \in InterlaceFrameEvents : StartFrame(ev)
    \/ nchunks = 0 /\ WriteImageChunk(WriteImageChunkEvent(RowPixels(width, height)))

SpecInterlace == Init /\ [][NextInterlace]_vars

\* The pixels of one frame, RowPixels(width, height), given as one chunk or
\* split into two at any point: the second chunk is what the first left.
NextSplit ==
    \/ \E ev \in InterlaceGifEvents : StartGif(ev)
    \/ StartFrame(StartFrameEvent(0, "None", None, None, FALSE))
    \/ \E k \in 0..(width * height) :
         /\ nchunks = 0
         /\ WriteImageChunk(WriteImageChunkEvent(Take(RowPixels(width, height), k)))
    \/ /\ nchunks = 1
       /\ WriteImageChunk(WriteImageChunkEvent(
              Drop(RowPixels(width, height), Len(lastEvent.data))))

SpecSplit == Init /\ [][NextSplit]_vars

\* A frame of one chunk, written and flushed: the encoder after
\* StartGif{2, 2, no palette, 0, no loop} and StartFrame{0, None, no
\* palette, no transparency, not interlaced}, then one long chunk.
FlushInit ==
    /\ state = "WritingFrame"
    /\ buffer = write_image_descriptor(
                    write_graphic_control_exension(
                        write_gif_header(<<>>, 2, 2, 0, None, None, FALSE).buffer,
                        "None", 0, None),
                    0, 0, 2, 2, None, FALSE, FALSE).buffer
    /\ lzw_encoder = LzwNew(2)
    /\ frame_count = 0
    /\ width = 2
    /\ height = 2
    /\ loop_count = None
    /\ is_interlaced = FALSE
    /\ compressed_buffer = <<>>
    /\ panicked = FALSE
    /\ lastEvent = StartFrameEvent(0, "None", None, None, FALSE)
    /\ result = "ok"
    /\ prevLen = 13
    /\ prevState = "WritingHeader"
    /\ nchunks = 0
    /\ frame_codes = <<>>
    /\ frame_log = <<>>
    /\ ParserIdle

NextFlush ==
    \/ \E ev \in LongChunkEvents : nchunks = 0 /\ WriteImageChunk(ev)
    \/ FlushFrame(PlainEvent("FlushFrame"))

SpecFlush == FlushInit /\ [][NextFlush]_vars

----------------------------------------------------------------------------
(* parse_gif, one loop iteration per step, on inputs assembled from blocks. *)

MaxBlocks == 3

\* A sub-block chain holding `data`
SubBlockChain(data) == Append(Chunks255(data), 0)

GceBlock(packed_fields, delay, index) ==
    [kind |-> "gce", id |-> delay, wf |-> TRUE,
     bytes |-> <<33, 249, 4, packed_fields>> \o to_le_bytes(delay) \o <<index, 0>>]

CommentBlock(text) ==
    [kind |-> "comment", id |-> 0, wf |-> TRUE,
     bytes |-> <<33, 254>> \o SubBlockChain(text)]

ApplicationBlock(loops) ==
    [kind |-> "application", id |-> loops, wf |-> TRUE,
     bytes |-> <<33, 255, 11>> \o Netscape20 \o SubBlockChain(<<1>> \o to_le_bytes(loops))]

PlainTextBlock(text) ==
    [kind |-> "plain_text", id |-> 0, wf |-> TRUE,
     bytes |-> <<33, 1, 12>> \o to_le_bytes(1) \o to_le_bytes(2) \o to_le_bytes(3)
               \o to_le_bytes(4) \o <<8, 8, 1, 0>> \o SubBlockChain(text)]

ImageBlock(left, packed_fields, table, min_code_size, chain) ==
    [kind |-> "image", id |-> left, wf |-> TRUE,
     bytes |-> <<44>> \o to_le_bytes(left) \o to_le_bytes(0) \o to_le_bytes(2)
               \o to_le_bytes(2) \o <<packed_fields>> \o table \o <<min_code_size>>
               \o chain]

\* An extension with a label parse_block does not know
UnknownExtensionBlock(label, payload) ==
    [kind |-> "unknown_extension", id |-> label, wf |-> TRUE,
     bytes |-> <<33, label>> \o SubBlockChain(payload)]

BlockTemplates ==
    { GceBlock(9, 10, 3),
      GceBlock(4, 513, 0),
      CommentBlock(<<72, 105, 44>>),
      ApplicationBlock(0),
      PlainTextBlock(<<65>>),
      ImageBlock(1, 0, <<>>, 2, <<2, 76, 1, 0>>),
      ImageBlock(2, 128, <<1, 2, 3, 4, 5, 6>>, 2, <<1, 44, 2, 59, 33, 0>>),
      UnknownExtensionBlock(153, <<44, 0, 0, 0, 0, 1, 0, 1, 0, 0, 2, 0>>) }

BlockSeqs == UNION {[1..k -> BlockTemplates] : k \in 0..MaxBlocks}

\* Signature, logical screen descriptor and optional global color table
ParseHeaders ==
    { Sig89a \o to_le_bytes(100) \o to_le_bytes(100) \o <<128, 0, 0>>
             \o <<1, 2, 3, 4, 5, 6>>,
      Sig87a \o to_le_bytes(100) \o to_le_bytes(100) \o <<0, 0, 0>> }

ParseTails == { <<59>> }

BlockBytes(bs) == Flatten([i \in 1..Len(bs) |-> bs[i].bytes])

ParseInit ==
    /\ EncoderInit
    /\ \E h \in ParseHeaders, bs \in BlockSeqs, t \in ParseTails :
         /\ p_blocks = bs
         /\ p_input = h \o BlockBytes(bs) \o t
    /\ p_rest = p_input
    /\ p_pc = "start"
    /\ demuxer = NewDemuxer
    /\ pending_gce = None
    /\ p_trace = <<>>

\* parse_gif, lines 316-335
ParseGifStart ==
    /\ p_pc = "start"
    /\ LET head == ParseGifHead(demuxer, p_input)
       IN /\ demuxer' = head.demuxer
          /\ p_rest' = head.rest
          /\ p_pc' = IF head.res = "err" THEN "err" ELSE "loop"
    /\ pending_gce' = None
    /\ UNCHANGED <<p_input, p_blocks, p_trace, encVars, obsVars>>

\* parse_gif, one iteration of the block loop, lines 338-368
ParseGifBlock ==
    /\ p_pc = "loop"
    /\ p_rest # <<>>
    /\ LET st == ParseGifIter([demuxer |-> demuxer, rest |-> p_rest,
                               pending_gce |-> pending_gce, looping |-> TRUE])
           block == parse_block(p_rest)
       IN /\ demuxer' = st.demuxer
          /\ p_rest' = st.rest
          /\ pending_gce' = st.pending_gce
          /\ p_pc' = IF st.looping THEN "loop" ELSE "ok"
          /\ p_trace' = Append(p_trace, [kind |-> block.kind, value |-> block.value])
    /\ UNCHANGED <<p_input, p_blocks, encVars, obsVars>>

\* parse_gif, the loop's exit and Ok(()), lines 338 and 370
ParseGifReturn ==
    /\ p_pc = "loop"
    /\ p_rest = <<>>
    /\ p_pc' = "ok"
    /\ UNCHANGED <<p_input, p_blocks, p_rest, demuxer, pending_gce, p_trace,
                   encVars, obsVars>>

NextParse == ParseGifStart \/ ParseGifBlock \/ ParseGifReturn

SpecParse == ParseInit /\ [][NextParse]_vars

\* parse_gif on inputs in which a faulty block follows complete blocks
MaxPrefix == 2

KnownTemplates == {b \in BlockTemplates : b.kind # "unknown_extension"}

PrefixSeqs == UNION {[1..k -> KnownTemplates] : k \in 0..MaxPrefix}

\* Blocks parse_block fails on wherever they stand, and what may follow
WrongSizeBlocks ==
    { <<33, 249, 5, 0, 10, 0, 0, 0, 0>>,            \* GCE of block size 5
      <<33, 249, 4, 0, 10, 0, 0, 1>>,                \* GCE without terminator
      <<33, 1, 11, 1, 0, 2, 0, 3, 0, 4, 0, 8, 8, 1, 0, 1, 65, 0>>,  \* plain text, 11
      <<33, 255, 10>> \o Netscape20 \o <<3, 1, 0, 0, 0>> }           \* application, 10

FaultTails ==
    { <<59>>,
      ImageBlock(7, 0, <<>>, 2, <<2, 76, 1, 0>>).bytes \o <<59>>,
      CommentBlock(<<72, 105>>).bytes \o ApplicationBlock(3).bytes \o <<59>> }

\* Blocks cut short by the end of the input
TruncatedBlocks ==
    { <<44, 7, 0, 0>>,                               \* descriptor
      <<44, 7, 0, 0, 0, 2, 0, 2, 0, 0, 2, 5, 76, 1>>, \* image sub-block
      <<33, 254, 5, 72, 105>>,                       \* comment sub-block
      <<33, 249, 4, 0, 10>>,                         \* GCE
      <<44, 7, 0, 0, 0, 2, 0, 2, 0, 128, 1, 2, 3>> } \* local color table

\* What follows the complete blocks: a faulty block and a tail, a block cut
\* short, or (for comparison) the trailer alone
FaultyRests ==
    {f \o t : f \in WrongSizeBlocks, t \in FaultTails} \cup TruncatedBlocks
        \cup ParseTails

FaultyInit ==
    /\ EncoderInit
    /\ \E h \in ParseHeaders, bs \in PrefixSeqs, f \in FaultyRests :
         /\ p_blocks = bs
         /\ p_input = h \o BlockBytes(bs) \o f
    /\ p_rest = p_input
    /\ p_pc = "start"
    /\ demuxer = NewDemuxer
    /\ pending_gce = None
    /\ p_trace = <<>>

SpecFaulty == FaultyInit /\ [][NextParse]_vars

\* parse_gif on inputs with good and bad signatures
Signatures ==
    {Sig87a, Sig89a}
        \cup {[Sig89a EXCEPT ![i] = b] : i \in 1..6, b \in {0, 55, 56, 98, 103}}
        \cup {[Sig87a EXCEPT ![i] = b] : i \in {1, 6}, b \in {72, 65}}

ShortInputs == {Take(Sig89a, n) : n \in 0..5}

AfterSignature ==
    { to_le_bytes(100) \o to_le_bytes(50) \o <<0, 7, 0>> \o b.bytes \o <<59>> :
        b \in BlockTemplates }

SignatureInit ==
    /\ EncoderInit
    /\ p_blocks = <<>>
    /\ p_input \in {sig \o r : sig \in Signatures, r \in AfterSignature}
                      \cup ShortInputs
    /\ p_rest = p_input
    /\ p_pc = "start"
    /\ demuxer = NewDemuxer
    /\ pending_gce = None
    /\ p_trace = <<>>

SpecSignature == SignatureInit /\ [][NextParse]_vars

\* parse_gif on inputs in which bytes follow the trailer or an introducer
\* that parse_block does not know
StopBytes == {59, 0, 153}

AfterStop ==
    { <<>>,
      <<59>>,
      ImageBlock(7, 0, <<>>, 2, <<2, 76, 1, 0>>).bytes \o <<59>>,
      CommentBlock(<<72, 105>>).bytes,
      GceBlock(4, 7, 0).bytes \o ImageBlock(8, 0, <<>>, 2, <<1, 4, 0>>).bytes }

StoppedPrefixes == UNION {[1..k -> KnownTemplates] : k \in 0..1}

TrailingInit ==
    /\ EncoderInit
    /\ \E h \in ParseHeaders, bs \in StoppedPrefixes, s \in StopBytes, a \in AfterStop :
         /\ p_blocks = bs
         /\ p_input = h \o BlockBytes(bs) \o <<s>> \o a
    /\ p_rest = p_input
    /\ p_pc = "start"
    /\ demuxer = NewDemuxer
    /\ pending_gce = None
    /\ p_trace = <<>>

SpecTrailing == TrailingInit /\ [][NextParse]_vars

\* parse_gif run to its return, on inputs of every kind above: a header, at
\* most one block (an image or an unknown extension), then a faulty block,
\* a block cut short, the trailer, or
\* an introducer parse_block does not know with more bytes behind it; and
\* inputs that end inside the signature.  parse_gif is one sequential
\* function: a step that can be taken is taken.
OneBlockSeqs ==
    { <<>>,
      <<ImageBlock(1, 0, <<>>, 2, <<2, 76, 1, 0>>)>>,
      <<UnknownExtensionBlock(153, <<44, 0, 0, 0, 0, 1, 0, 1, 0, 0, 2, 0>>)>> }

TerminationRests ==
    FaultyRests \cup {<<s>> \o a : s \in StopBytes, a \in AfterStop}

TerminationInit ==
    /\ EncoderInit
    /\ \/ \E h \in ParseHeaders, bs \in OneBlockSeqs, r \in TerminationRests :
            /\ p_blocks = bs
            /\ p_input = h \o BlockBytes(bs) \o r
       \/ p_blocks = <<>> /\ p_input \in ShortInputs
    /\ p_rest = p_input
    /\ p_pc = "start"
    /\ demuxer = NewDemuxer
    /\ pending_gce = None
    /\ p_trace = <<>>

SpecTermination == TerminationInit /\ [][NextParse]_vars /\ WF_vars(NextParse)

\* parse_gif on inputs whose signature, logical screen descriptor or global
\* color table is wrong or cut short, and on complete inputs for comparison;
\* the demuxer is a new one or one that has parsed a file before.
ScreenDescriptor(packed_fields) ==
    to_le_bytes(320) \o to_le_bytes(200) \o <<packed_fields, 3, 49>>

TableBytes(n) == [i \in 1..n |-> 200 + i]

TablePackedFields == {128, 129, 145, 242}

TableSize(packed_fields) == 3 * Pow2(BitAnd(packed_fields, 7) + 1)

HeaderInputs ==
    ShortInputs
        \cup {sig \o r : sig \in Signatures \ {Sig87a, Sig89a}, r \in AfterSignature}
        \cup {sig \o Take(ScreenDescriptor(0), n) : sig \in {Sig87a, Sig89a}, n \in 0..6}
        \cup UNION {{Sig89a \o ScreenDescriptor(pf) \o TableBytes(m) :
                        m \in 0..(TableSize(pf) - 1)} : pf \in TablePackedFields}
        \cup {h \o t :
                h \in {Sig89a \o ScreenDescriptor(0)}
                          \cup {Sig89a \o ScreenDescriptor(pf) \o TableBytes(TableSize(pf)) :
                                   pf \in TablePackedFields},
                t \in {<<>>, <<59>>, CommentBlock(<<72, 105>>).bytes \o <<59>>}}

EarlierDemuxers ==
    { NewDemuxer,
      parse_gif(NewDemuxer,
                Sig87a \o to_le_bytes(100) \o to_le_bytes(50) \o <<128, 1, 0>>
                       \o <<1, 2, 3, 4, 5, 6>>
                       \o CommentBlock(<<72, 105>>).bytes
                       \o ImageBlock(1, 0, <<>>, 2, <<2, 76, 1, 0>>).bytes
                       \o <<59>>).demuxer }

HeaderInit ==
    /\ EncoderInit
    /\ p_blocks = <<>>
    /\ p_input \in HeaderInputs
    /\ p_rest = p_input
    /\ p_pc = "start"
    /\ demuxer \in EarlierDemuxers
    /\ pending_gce = None
    /\ p_trace = <<>>

SpecHeader == HeaderInit /\ [][NextParse]_vars

\* parse_gif on inputs of up to two application extensions
AppBlock(identifier, auth_code, data, chain) ==
    [kind |-> "application", id |-> 0, wf |-> TRUE,
     bytes |-> <<33, 255, 11>> \o identifier \o auth_code \o chain,
     identifier |-> identifier, auth_code |-> auth_code, data |-> data]

NetscapeBytes == <<78, 69, 84, 83, 67, 65, 80, 69>>     \* "NETSCAPE"

AppTemplates ==
    { AppBlock(NetscapeBytes, <<50, 46, 48>>, <<1, 0, 0>>, <<3, 1, 0, 0, 0>>),
      AppBlock(NetscapeBytes, <<50, 46, 48>>, <<1, 2, 1>>, <<1, 1, 2, 2, 1, 0>>),
      AppBlock(NetscapeBytes, <<50, 46, 48>>, <<1, 4, 0, 9>>, <<4, 1, 4, 0, 9, 0>>),
      AppBlock(NetscapeBytes, <<50, 46, 48>>, <<1, 5>>, <<2, 1, 5, 0>>),
      AppBlock(NetscapeBytes, <<50, 46, 48>>, <<2, 7, 0>>, <<3, 2, 7, 0, 0>>),
      AppBlock(NetscapeBytes, <<50, 46, 48>>, <<>>, <<0>>),
      AppBlock(NetscapeBytes, <<50, 46, 49>>, <<1, 3, 0>>, <<3, 1, 3, 0, 0>>),
      AppBlock(<<88, 77, 80, 32, 68, 97, 116, 97>>, <<88, 77, 80>>, <<1, 9, 0>>,
               <<3, 1, 9, 0, 0>>) }

AppSeqs == UNION {[1..k -> AppTemplates] : k \in 0..2}

AppsInit ==
    /\ EncoderInit
    /\ \E h \in ParseHeaders, bs \in AppSeqs, t \in ParseTails :
         /\ p_blocks = bs
         /\ p_input = h \o BlockBytes(bs) \o t
    /\ p_rest = p_input
    /\ p_pc = "start"
    /\ demuxer = NewDemuxer
    /\ pending_gce = None
    /\ p_trace = <<>>

SpecApps == AppsInit /\ [][NextParse]_vars

----------------------------------------------------------------------------
(* Properties of process_event. *)

\* The (state, event) pairs the specification lists as accepted.
ListedTransitions ==
    { <<"Idle", "StartGif">>,
      <<"WritingHeader", "StartFrame">>,
      <<"WritingFrame", "WriteImageChunk">>,
      <<"WritingFrame", "FlushFrame">>,
      <<"WritingFrame", "EndFrame">>,
      <<"FlushingFrame", "EndFrame">>,
      <<"WritingHeader", "EndGif">> }

\* C1: a call of process_event with a (state, event) pair outside the seven
\* listed pairs returns an error; so every event is rejected in Done, and
\* WriteImageChunk and FlushFrame are rejected in FlushingFrame.
C1_UnlistedPairRejected ==
    lastEvent.kind # "none" =>
        /\ <<prevState, lastEvent.kind>> \notin ListedTransitions => result = "err"
        /\ prevState = "Done" => result = "err"
        /\ (prevState = "FlushingFrame"
              /\ lastEvent.kind \in {"WriteImageChunk", "FlushFrame"})
           => result = "err"

\* A second FlushFrame, sent while FlushingFrame, was rejected.
C1_Witness ==
    /\ result = "err"
    /\ prevState = "FlushingFrame"
    /\ lastEvent.kind = "FlushFrame"
    /\ state = "FlushingFrame"

\* C2: a call that returns an error leaves the state, the output buffer, the
\* frame buffer, the frame count and the LZW encoder as they were.
C2_ErrorChangesNothing ==
    [][result' = "err" =>
         UNCHANGED <<state, buffer, compressed_buffer, frame_count, lzw_encoder>>]_vars

\* A call was rejected while a written chunk sat in the frame buffer.
C2_Witness ==
    /\ result = "err"
    /\ state = "WritingFrame"
    /\ compressed_buffer # <<>>
    /\ lzw_encoder.output # <<>>

\* C3: in every state but Idle the buffer begins with "GIF89a", and in Done
\* its last byte is 0x3B.
C3_SignatureAndTrailer ==
    /\ state # "Idle" =>
         Len(buffer) >= 6 /\ SubSeq(buffer, 1, 6) = <<71, 73, 70, 56, 57, 97>>
    /\ state = "Done" => buffer[Len(buffer)] = 59

\* Done was reached after a frame.
C3_Witness == state = "Done" /\ frame_count >= 1 /\ result = "ok"

\* Walks a sub-block chain: [ok, sizes, payload], ok when the bytes are
\* length-prefixed blocks followed by one 0x00 and nothing else.
RECURSIVE WalkChain(_)
WalkChain(bytes) ==
    IF bytes = <<>> THEN [ok |-> FALSE, sizes |-> <<>>, payload |-> <<>>]
    ELSE IF bytes[1] = 0
    THEN [ok |-> Len(bytes) = 1, sizes |-> <<>>, payload |-> <<>>]
    ELSE IF Len(bytes) < 1 + bytes[1]
    THEN [ok |-> FALSE, sizes |-> <<>>, payload |-> <<>>]
    ELSE LET more == WalkChain(SubSeq(bytes, bytes[1] + 2, Len(bytes)))
         IN [ok |-> more.ok,
             sizes |-> <<bytes[1]>> \o more.sizes,
             payload |-> SubSeq(bytes, 2, bytes[1] + 1) \o more.payload]

\* What the last call appended to the buffer
Appended == SubSeq(buffer, prevLen + 1, Len(buffer))

\* C4: FlushFrame appends a sub-block chain: every length byte is in 1..255
\* and counts the payload bytes after it, only the last sub-block is shorter
\* than 255, the chain ends with 0x00, and the payloads concatenated are the
\* frame buffer.
C4_FlushWritesSubBlockChain ==
    (lastEvent.kind = "FlushFrame" /\ result = "ok") =>
        LET w == WalkChain(Appended)
        IN /\ w.ok
           /\ \A i \in 1..Len(w.sizes) : w.sizes[i] \in 1..255
           /\ \A i \in 1..(Len(w.sizes) - 1) : w.sizes[i] = 255
           /\ w.payload = compressed_buffer
           /\ Appended[Len(Appended)] = 0

\* A frame buffer of exactly two full sub-blocks was flushed.
C4_Witness ==
    /\ lastEvent.kind = "FlushFrame"
    /\ state = "FlushingFrame"
    /\ Len(compressed_buffer) = 510

\* Frame buffers that are empty, and of one full sub-block, were flushed.
C4_WitnessEmpty ==
    lastEvent.kind = "FlushFrame" /\ compressed_buffer = <<>>

C4_WitnessOneFull ==
    lastEvent.kind = "FlushFrame" /\ Len(compressed_buffer) = 255

----------------------------------------------------------------------------
(* Properties of parse_gif. *)

\* The blocks of the input that are image descriptors, and their `left`
ImageBlocksOf(blocks) == SelectSeq(blocks, LAMBDA b : b.kind = "image")

LeftOf(records) == [k \in 1..Len(records) |-> records[k].id]

FrameLefts(frames) == [k \in 1..Len(frames) |-> frames[k].left]

HasUnknownExtension(blocks) ==
    \E i \in 1..Len(blocks) : blocks[i].kind = "unknown_extension"

\* C5: parse_gif yields one frame per image-descriptor block of the input,
\* in the order of the blocks.
C5_OneFramePerImageBlock ==
    p_pc = "ok" =>
        FrameLefts(demuxer.frames) = LeftOf(ImageBlocksOf(p_blocks))

\* The same, for inputs that hold no extension with an unknown label.
C5_OneFramePerImageBlockKnownLabels ==
    (p_pc = "ok" /\ ~HasUnknownExtension(p_blocks)) =>
        FrameLefts(demuxer.frames) = LeftOf(ImageBlocksOf(p_blocks))

\* Position in p_trace of the k-th frame parse_block returned (0 for k = 0)
FramePos(k) ==
    IF k = 0 THEN 0
    ELSE CHOOSE i \in 1..Len(p_trace) :
           /\ p_trace[i].kind = "Frame"
           /\ Cardinality({j \in 1..i : p_trace[j].kind = "Frame"}) = k

\* Positions of the Graphics Control Extensions read between the (k-1)-th
\* frame (or the header) and the k-th frame
GcePositions(k) ==
    {i \in (FramePos(k - 1) + 1)..(FramePos(k) - 1) :
        p_trace[i].kind = "GraphicsControl"}

MostRecent(positions) == CHOOSE i \in positions : \A j \in positions : j <= i

\* The same from the input: the delay of the GCE block that is the last one
\* between the image block before the k-th one and the k-th one, if any
ImagePos(blocks, k) ==
    IF k = 0 THEN 0
    ELSE CHOOSE i \in 1..Len(blocks) :
           /\ blocks[i].kind = "image"
           /\ Cardinality({j \in 1..i : blocks[j].kind = "image"}) = k

GceBlocksBefore(blocks, k) ==
    {i \in (ImagePos(blocks, k - 1) + 1)..(ImagePos(blocks, k) - 1) :
        blocks[i].kind = "gce"}

\* C6: each frame's gce is the most recent GCE read after the previous image
\* descriptor (or the header) and before the frame's own, absent when there
\* is none; so no GCE goes to two frames and a GCE followed by a GCE is
\* dropped.
C6_GceAttachedToNextFrame ==
    p_pc = "ok" =>
        /\ Len(demuxer.frames) =
             Cardinality({i \in 1..Len(p_trace) : p_trace[i].kind = "Frame"})
        /\ \A k \in 1..Len(demuxer.frames) :
             demuxer.frames[k].gce =
                 IF GcePositions(k) = {} THEN None
                 ELSE Some(p_trace[MostRecent(GcePositions(k))].value)
        /\ ~HasUnknownExtension(p_blocks) =>
             \A k \in 1..Len(demuxer.frames) :
                LET before == GceBlocksBefore(p_blocks, k)
                    gce == demuxer.frames[k].gce
                IN IF before = {} THEN ~gce.some
                   ELSE gce.some
                        /\ gce.v.delay_time = p_blocks[MostRecent(before)].id

\* Two GCEs, then an image: the frame has the second GCE.
C6_Witness ==
    /\ p_pc = "ok"
    /\ Len(p_blocks) = 3
    /\ p_blocks[1].kind = "gce" /\ p_blocks[1].id = 10
    /\ p_blocks[2].kind = "gce" /\ p_blocks[2].id = 513
    /\ p_blocks[3].kind = "image"
    /\ Len(demuxer.frames) = 1
    /\ demuxer.frames[1].gce.some
    /\ demuxer.frames[1].gce.v.delay_time = 513

----------------------------------------------------------------------------
(* Properties of the encoder's output. *)

CountOf(code, codes) == Cardinality({i \in 1..Len(codes) : codes[i] = code})

\* C7: the codes written for a frame start with the clear code and hold the
\* end-of-information code once, at the end.
C7_FrameCodesClearFirstEoiLast ==
    (state = "FlushingFrame" /\ nchunks >= 1) =>
        /\ frame_codes # <<>>
        /\ frame_codes[1] = clear_code
        /\ frame_codes[Len(frame_codes)] = end_of_stream_code
        /\ CountOf(end_of_stream_code, frame_codes) = 1

\* The same, for the first frame when it was written as one chunk.
C7_FirstFrameOneChunk ==
    (state = "FlushingFrame" /\ nchunks = 1 /\ frame_count = 0) =>
        /\ frame_codes[1] = clear_code
        /\ frame_codes[Len(frame_codes)] = end_of_stream_code
        /\ CountOf(end_of_stream_code, frame_codes) = 1

\* Every frame so far was StartFrame, WriteImageChunk, FlushFrame, EndFrame
OneChunkFrames ==
    \A k \in 1..Len(frame_log) : frame_log[k].flushed /\ frame_log[k].nchunks = 1

\* C8: after StartGif, n >= 1 times (StartFrame, WriteImageChunk, FlushFrame,
\* EndFrame) and EndGif, parse_gif of the buffer succeeds with n frames, each
\* of StartGif's width and height, each with a GCE, each with the data of
\* the frame buffer that was flushed for it.
C8_RoundTrip ==
    (state = "Done" /\ frame_count >= 1 /\ OneChunkFrames) =>
        LET parsed == parse_gif(NewDemuxer, buffer)
            frames == parsed.demuxer.frames
        IN /\ parsed.res = "ok"
           /\ Len(frames) = frame_count
           /\ \A k \in 1..Len(frames) :
                /\ frames[k].width = width
                /\ frames[k].height = height
                /\ frames[k].gce.some
                /\ k <= Len(frame_log) => frames[k].data = frame_log[k].data

\* C9: the header StartGif wrote parses to the width, height and background
\* index of the event and to a global color table that is the palette given.
C9_HeaderRoundTrip ==
    (lastEvent.kind = "StartGif" /\ result = "ok") =>
        LET head == ParseGifHead(NewDemuxer, buffer)
        IN /\ head.res = "ok"
           /\ head.demuxer.screen_width = lastEvent.width
           /\ head.demuxer.screen_height = lastEvent.height
           /\ head.demuxer.background_color_index = lastEvent.background_color_index
           /\ head.demuxer.global_color_table =
                 (IF lastEvent.palette.some THEN Flatten(lastEvent.palette.v) ELSE <<>>)

\* The same, for palettes of 2 or 4 entries and for no palette.
C9_HeaderRoundTripPowerOfTwo ==
    (lastEvent.kind = "StartGif" /\ result = "ok"
       /\ (lastEvent.palette.some => Len(lastEvent.palette.v) \in {2, 4})) =>
        LET head == ParseGifHead(NewDemuxer, buffer)
        IN /\ head.res = "ok"
           /\ head.demuxer.screen_width = lastEvent.width
           /\ head.demuxer.screen_height = lastEvent.height
           /\ head.demuxer.background_color_index = lastEvent.background_color_index
           /\ head.demuxer.global_color_table =
                 (IF lastEvent.palette.some THEN Flatten(lastEvent.palette.v) ELSE <<>>)

DisposalNumber(disposal_method) ==
    CASE disposal_method = "None" -> 0
      [] disposal_method = "Keep" -> 1
      [] disposal_method = "Background" -> 2
      [] disposal_method = "Previous" -> 3

\* C10: the GCE StartFrame wrote parses to the disposal number, the delay,
\* a transparency flag set exactly when an index was given, that index (0
\* when none was given) and a clear user-input flag.
C10_GceRoundTrip ==
    lastEvent.kind = "StartFrame" =>
        LET block == parse_block(Appended)
        IN /\ block.ok
           /\ block.kind = "GraphicsControl"
           /\ block.value.disposal_method = DisposalNumber(lastEvent.disposal_method)
           /\ block.value.delay_time = lastEvent.delay
           /\ block.value.transparent_color_flag = lastEvent.transparent_color_index.some
           /\ block.value.transparent_color_index =
                 (IF lastEvent.transparent_color_index.some
                  THEN lastEvent.transparent_color_index.v ELSE 0)
           /\ ~block.value.user_input_flag

\* A frame was started with Previous, the largest delay and index 255.
C10_Witness ==
    /\ lastEvent.kind = "StartFrame"
    /\ lastEvent.disposal_method = "Previous"
    /\ lastEvent.delay = 65535
    /\ lastEvent.transparent_color_index = Some(255)
    /\ result = "ok"

----------------------------------------------------------------------------
(* Properties of the color table size field. *)

PowersOfTwo == {2, 4, 8, 16, 32, 64, 128, 256}

\* The packed byte the last call wrote: byte 11 of the header after
\* StartGif, byte 10 of the image descriptor (after the 8 bytes of the GCE)
\* after StartFrame; -1 when the call did not get that far.
PackedByteAt == IF lastEvent.kind = "StartGif" THEN 11 ELSE prevLen + 18

PackedByte == IF Len(buffer) >= PackedByteAt THEN buffer[PackedByteAt] ELSE -1

SizeFieldMatches(len) ==
    /\ PackedByte >= 128
    /\ 2 ^ ((PackedByte % 8) + 1) = len
    /\ LET table == parse_global_color_table(
                        SubSeq(buffer, PackedByteAt
                                       + (IF lastEvent.kind = "StartGif" THEN 3 ELSE 1),
                               Len(buffer)),
                        PackedByte)
       IN table.ok /\ table.table = Flatten(lastEvent.palette.v)

\* C11: for a palette of 2, 4, ..., 256 entries, global or local, the packed
\* byte has bit 7 set and bits 0-2 hold N with 2^(N+1) the palette length,
\* and the table length the parser computes is the number of bytes written.
C11_SizeFieldOfPowerOfTwo ==
    (/\ lastEvent.kind \in {"StartGif", "StartFrame"}
     /\ lastEvent.palette.some
     /\ Len(lastEvent.palette.v) \in PowersOfTwo)
    => SizeFieldMatches(Len(lastEvent.palette.v))

\* The same, for 2 to 128 entries.
C11_SizeFieldUpTo128 ==
    (/\ lastEvent.kind \in {"StartGif", "StartFrame"}
     /\ lastEvent.palette.some
     /\ Len(lastEvent.palette.v) \in PowersOfTwo \ {256})
    => SizeFieldMatches(Len(lastEvent.palette.v))

\* The same, for 256 entries when the call returned.
C11_SizeFieldOf256Returned ==
    (/\ lastEvent.kind \in {"StartGif", "StartFrame"}
     /\ lastEvent.palette.some
     /\ Len(lastEvent.palette.v) = 256
     /\ ~panicked)
    => SizeFieldMatches(256)

----------------------------------------------------------------------------
(* Properties of the loop count. *)

\* C12: the loop count given to StartGif is what get_loop_count returns on
\* the parsed output: Some(n) for Some(n), None for None.
C12_LoopCountRoundTrip ==
    (lastEvent.kind = "StartGif" /\ result = "ok") =>
        get_loop_count(parse_gif(NewDemuxer, buffer).demuxer) = lastEvent.loop_count

\* The same, for palettes of 2 or 4 entries and for no palette.
C12_LoopCountRoundTripPowerOfTwo ==
    (lastEvent.kind = "StartGif" /\ result = "ok"
       /\ (lastEvent.palette.some => Len(lastEvent.palette.v) \in {2, 4})) =>
        get_loop_count(parse_gif(NewDemuxer, buffer).demuxer) = lastEvent.loop_count

\* The loop count of the first NETSCAPE 2.0 block among the blocks of the
\* input: the 16-bit little-endian value of data bytes 1-2 when the data has
\* at least 3 bytes and begins with 0x01.
ExpectedLoopCount(blocks) ==
    LET found == {i \in 1..Len(blocks) :
                     /\ blocks[i].identifier = <<78, 69, 84, 83, 67, 65, 80, 69>>
                     /\ blocks[i].auth_code = <<50, 46, 48>>}
    IN IF found = {} THEN None
       ELSE LET b == blocks[CHOOSE i \in found : \A j \in found : i <= j]
            IN IF Len(b.data) >= 3 /\ b.data[1] = 1
               THEN Some(b.data[2] + 256 * b.data[3])
               ELSE None

\* get_loop_count on parsed inputs of application extensions gives the value
\* of the first NETSCAPE 2.0 block, or None.
C12_LoopCountOfApplications ==
    p_pc = "ok" =>
        /\ Len(demuxer.applications) = Len(p_blocks)
        /\ get_loop_count(demuxer) = ExpectedLoopCount(p_blocks)

C12_WitnessSplitData ==
    p_pc = "ok" /\ get_loop_count(demuxer) = Some(258)

----------------------------------------------------------------------------
(* Properties of parse_gif on faulty inputs. *)

CountKind(blocks, kind) ==
    Cardinality({i \in 1..Len(blocks) : blocks[i].kind = kind})

\* The header of the input: 13 bytes, and 6 table bytes when bit 7 is set
HeaderOf(input) == SubSeq(input, 1, IF input[11] >= 128 THEN 19 ELSE 13)

\* C13: when a block inside the loop is faulty, parse_gif returns success
\* with the frames and extensions of the complete blocks before it, and with
\* nothing from the faulty block or from the bytes after it.
C13_FaultStopsLoopKeepsParsed ==
    /\ p_pc # "err"
    /\ p_pc = "ok" =>
         /\ FrameLefts(demuxer.frames) = LeftOf(ImageBlocksOf(p_blocks))
         /\ Len(demuxer.comments) = CountKind(p_blocks, "comment")
         /\ Len(demuxer.plain_texts) = CountKind(p_blocks, "plain_text")
         /\ Len(demuxer.applications) = CountKind(p_blocks, "application")
         /\ demuxer = parse_gif(NewDemuxer,
                                HeaderOf(p_input) \o BlockBytes(p_blocks)).demuxer

\* A GCE of block size 5 after a comment and an image, followed by a
\* complete image: one frame, one comment.
C13_Witness ==
    /\ p_pc = "ok"
    /\ Len(p_blocks) = 2
    /\ p_blocks[1].kind = "comment"
    /\ p_blocks[2].kind = "image"
    /\ Len(demuxer.frames) = 1
    /\ Len(demuxer.comments) = 1
    /\ Len(p_rest) > 20
    /\ p_rest[1] = 33 /\ p_rest[2] = 249 /\ p_rest[3] = 5

\* The first six bytes are "GIF87a" or "GIF89a"
GoodSignature(input) ==
    /\ Len(input) >= 6
    /\ \/ SubSeq(input, 1, 6) = <<71, 73, 70, 56, 55, 97>>
       \/ SubSeq(input, 1, 6) = <<71, 73, 70, 56, 57, 97>>

\* C14: parse_gif fails exactly on the inputs that do not begin with "GIF87a"
\* or "GIF89a" (what follows the signature being well-formed), and a failed
\* call leaves the demuxer without frames, extensions or screen fields.
C14_SignatureChecked ==
    p_pc # "start" =>
        /\ ~GoodSignature(p_input) => (p_pc = "err" /\ demuxer = NewDemuxer)
        /\ GoodSignature(p_input) =>
             (/\ p_pc \in {"loop", "ok"}
              /\ demuxer.screen_width = 100
              /\ demuxer.screen_height = 50
              /\ demuxer.background_color_index = 7)

\* "GIF88a" before a well-formed image was refused.
C14_Witness ==
    /\ p_pc = "err"
    /\ Len(p_input) > 20
    /\ SubSeq(p_input, 1, 6) = <<71, 73, 70, 56, 56, 97>>
    /\ p_input[14] = 44

\* "GIF87a" before a well-formed image gave a frame.
C14_WitnessAccepted ==
    /\ p_pc = "ok"
    /\ SubSeq(p_input, 1, 6) = <<71, 73, 70, 56, 55, 97>>
    /\ Len(demuxer.frames) = 1

\* C15: every call of process_event returns, with success or with an error
\* value; none unwinds.
C15_EveryCallReturns == ~panicked

\* C15, the chunk alone: a WriteImageChunk call returns whatever the length
\* of its chunk (violated by an interlaced frame whose chunk is shorter than
\* its rows, in every build).
C15_WriteImageChunkReturns ==
    lastEvent.kind = "WriteImageChunk" => ~panicked

\* C15, the dictionary alone: no lookup of encode_chunk or finalize misses
\* its key.
C15_NoMissingKey == ~lzw_encoder.panic

\* C15, where the aborts are: a palette whose length is 1 or above 128 (size
\* field, builds with overflow checks), or an interlaced chunk with fewer
\* bytes than the rows copied from it.
C15_AbortsOnlyThere ==
    panicked =>
        \/ /\ lastEvent.kind \in {"StartGif", "StartFrame"}
           /\ lastEvent.palette.some
           /\ Len(lastEvent.palette.v) \notin 2..128
        \/ /\ lastEvent.kind = "WriteImageChunk"
           /\ is_interlaced
           /\ Len(lastEvent.data) < width * height

\* C16: an EndFrame that follows FlushFrame writes nothing, so the frame's
\* sub-block chain is followed by one 0x00 only.
C16_EndFrameAfterFlushWritesNothing ==
    (lastEvent.kind = "EndFrame" /\ result = "ok" /\ prevState = "FlushingFrame")
        => Appended = <<>>

\* C16, what the code does: every EndFrame appends one 0x00, after
\* FlushFrame as well as without it.
C16_EndFrameAppendsZero ==
    (lastEvent.kind = "EndFrame" /\ result = "ok") => Appended = <<0>>

\* C16, the output: in a finished stream of flushed frames the byte after a
\* frame's chain terminator is 0x00 again, not an introducer or the trailer.
C16_TwoZerosBeforeTrailer ==
    (state = "Done" /\ frame_count > 0 /\ frame_log[frame_count].flushed)
        => SubSeq(buffer, Len(buffer) - 2, Len(buffer)) = <<0, 0, 59>>

----------------------------------------------------------------------------
(* Properties of parse_gif on inputs with bytes after the trailer. *)

\* The introducer that follows the header and the blocks of p_blocks
StopAt == Len(HeaderOf(p_input)) + Len(BlockBytes(p_blocks)) + 1

\* C17: the block loop stops at the first introducer that is the trailer or
\* is neither 0x21 nor 0x2C; nothing is produced from the bytes after it.
C17_NothingAfterStop ==
    p_pc = "ok" =>
        /\ FrameLefts(demuxer.frames) = LeftOf(ImageBlocksOf(p_blocks))
        /\ Len(demuxer.comments) = CountKind(p_blocks, "comment")
        /\ Len(demuxer.plain_texts) = CountKind(p_blocks, "plain_text")
        /\ Len(demuxer.applications) = CountKind(p_blocks, "application")

\* C17, the trailer alone: nothing is produced from bytes after 0x3B.
C17_NothingAfterTrailer ==
    (p_pc = "ok" /\ p_input[StopAt] = 59) =>
        FrameLefts(demuxer.frames) = LeftOf(ImageBlocksOf(p_blocks))

\* C17, what the code does: the loop goes on after the introducer, and the
\* result is that of the input with the introducer byte taken out.
C17_StopByteSkipped ==
    p_pc = "ok" =>
        demuxer = parse_gif(NewDemuxer,
                            SubSeq(p_input, 1, StopAt - 1)
                                \o SubSeq(p_input, StopAt + 1, Len(p_input))).demuxer

\* C17, the inputs that end with the introducer: frames and extensions are
\* those of the blocks before it.
C17_StopAtEndOfInput ==
    (p_pc = "ok" /\ StopAt = Len(p_input)) =>
        demuxer = parse_gif(NewDemuxer, SubSeq(p_input, 1, StopAt - 1)).demuxer

----------------------------------------------------------------------------
(* Properties of parse_gif on extensions with unknown labels. *)

\* The inputs that remain at the block boundaries of the input
BoundaryRests ==
    {BlockBytes(SubSeq(p_blocks, k + 1, Len(p_blocks))) \o <<59>> :
        k \in 0..Len(p_blocks)} \cup {<<>>}

\* C18: an extension with an unknown label is consumed whole, terminator
\* included, so every iteration of the block loop starts at the introducer
\* of a block of the input (or at the trailer, or at the end).
C18_ResumesAtIntroducer ==
    p_pc = "loop" => p_rest \in BoundaryRests

\* C18, the payload: an input without image block gives no frame, whatever
\* bytes the payload of an unknown extension holds.
C18_NoFrameFromPayload ==
    (p_pc = "ok" /\ ImageBlocksOf(p_blocks) = <<>>) => demuxer.frames = <<>>

\* C18, the known labels: without unknown extension every iteration starts
\* at a block boundary.
C18_KnownLabelsResumeAtIntroducer ==
    (p_pc = "loop" /\ ~HasUnknownExtension(p_blocks)) => p_rest \in BoundaryRests

\* C18, what the code does: after the label of an unknown extension the
\* next iteration starts at the first length byte of the chain.
C18_UnknownLabelLeavesChain ==
    (/\ p_pc = "loop" /\ Len(p_blocks) > 0
     /\ p_blocks[1].kind = "unknown_extension"
     /\ Len(p_trace) = 1)
        => p_rest = Drop(BlockBytes(p_blocks), 2) \o <<59>>

----------------------------------------------------------------------------
(* Properties of the LZW encoder across frames. *)

AfterEndFrame == lastEvent.kind = "EndFrame" /\ result = "ok"

\* C19: after every EndFrame the LZW encoder is as it was constructed: no
\* output, empty prefix, empty bit buffer, the initial code width and the
\* initial next code.
C19_EncoderFreshAfterEndFrame ==
    AfterEndFrame =>
        /\ lzw_encoder.output = <<>>
        /\ lzw_encoder.current_sequence = <<>>
        /\ lzw_encoder.bit_buffer = 0
        /\ lzw_encoder.bit_count = 0
        /\ lzw_encoder.code_size = LzwNew(2).code_size
        /\ lzw_encoder.next_code = 258

\* C19, the output alone: after EndFrame the encoder holds no emitted byte.
C19_OutputEmptyAfterEndFrame ==
    AfterEndFrame => get_encoded_data(lzw_encoder) = <<>>

\* C19, two frames: when the first frame was one chunk and the second frame's
\* first chunk has the same pixels, the second frame's compressed data is the
\* first frame's.
C19_SamePixelsSameData ==
    (/\ lastEvent.kind = "WriteImageChunk" /\ result = "ok"
     /\ frame_count = 1 /\ nchunks = 1
     /\ frame_log[1].nchunks = 1
     /\ frame_log[1].data =
            get_encoded_data(finalize(encode_chunk(LzwNew(2), lastEvent.data))))
        => compressed_buffer = frame_log[1].data

\* C19, what reset does restore: prefix, bit buffer, next code, dictionary.
C19_ResetRestoresDictionary ==
    AfterEndFrame =>
        /\ lzw_encoder.current_sequence = <<>>
        /\ lzw_encoder.bit_buffer = 0
        /\ lzw_encoder.bit_count = 0
        /\ lzw_encoder.next_code = 258
        /\ lzw_encoder.dictionary = EmptyDictionary
        /\ lzw_encoder.code_size = 9

\* C19, what reset leaves: the bytes of the frame's last finalize stay in
\* the encoder's output and begin the next frame's data.
C19_NextFrameBeginsWithOldOutput ==
    (/\ lastEvent.kind = "WriteImageChunk" /\ result = "ok"
     /\ frame_count = 1 /\ nchunks = 1 /\ frame_log[1].nchunks = 1)
        => /\ Len(compressed_buffer) > Len(frame_log[1].data)
           /\ Take(compressed_buffer, Len(frame_log[1].data)) = frame_log[1].data

----------------------------------------------------------------------------
(* Properties of encode_chunk, pixel by pixel. *)

\* The prefix W extended by pixel is in the dictionary
Matches(l, pixel) == contains_key(l.dictionary, Append(l.current_sequence, pixel))

\* C20: for a pixel whose extension of the prefix W is not in the
\* dictionary, encode_chunk emits the code of W once, inserts the extension
\* under the next code and makes the pixel the new prefix; for a pixel whose
\* extension is in the dictionary it emits nothing.
C20_OneCodePerUnmatchedPrefix ==
    [][\A pixel \in PixelValues :
         EncodeChunkPixel(pixel) =>
            IF Matches(lzw_encoder, pixel)
            THEN lzw_encoder'.emitted = lzw_encoder.emitted
            ELSE /\ lzw_encoder'.emitted =
                        Append(lzw_encoder.emitted,
                               DictIndex(lzw_encoder.dictionary,
                                         lzw_encoder.current_sequence))
                 /\ lzw_encoder'.dictionary =
                        lzw_encoder.dictionary
                            @@ (Append(lzw_encoder.current_sequence, pixel)
                                    :> lzw_encoder.next_code)
                 /\ lzw_encoder'.current_sequence = <<pixel>>]_vars

\* C20, the matched pixels: nothing is emitted and the prefix grows.
C20_MatchEmitsNothing ==
    [][\A pixel \in PixelValues :
         (EncodeChunkPixel(pixel) /\ Matches(lzw_encoder, pixel)) =>
            /\ lzw_encoder'.emitted = lzw_encoder.emitted
            /\ lzw_encoder'.output = lzw_encoder.output
            /\ lzw_encoder'.current_sequence =
                   Append(lzw_encoder.current_sequence, pixel)]_vars

\* C20, what the code does on an unmatched pixel: the code of W is emitted
\* twice, around the insertion.
C20_UnmatchedEmitsCodeTwice ==
    [][\A pixel \in PixelValues :
         (EncodeChunkPixel(pixel) /\ ~Matches(lzw_encoder, pixel)) =>
            LET code == DictIndex(lzw_encoder.dictionary,
                                  lzw_encoder.current_sequence)
            IN /\ lzw_encoder'.emitted = lzw_encoder.emitted \o <<code, code>>
               /\ lzw_encoder'.dictionary =
                      lzw_encoder.dictionary
                          @@ (Append(lzw_encoder.current_sequence, pixel)
                                  :> lzw_encoder.next_code)
               /\ lzw_encoder'.next_code = lzw_encoder.next_code + 1
               /\ lzw_encoder'.current_sequence = <<pixel>>]_vars

\* C20, the log of a whole chunk: one code per unmatched pixel would give
\* clear, 1, 0, 258, end for the pixels 1, 0, 1, 0.
C20_CodesOfOneZeroOneZero ==
    (result = "ok" /\ lastEvent.data = <<1, 0, 1, 0>>)
        => frame_codes = <<256, 1, 0, 258, 257>>

----------------------------------------------------------------------------
(* Properties of the code width. *)

\* The min_code_size byte of the image descriptor StartFrame wrote last
MinCodeSizeWritten == buffer[Len(buffer)]

\* C21: every code is written with a width w that holds it: each code of the
\* write_code log is smaller than 2^w (within a chunk of at most MaxPixels
\* pixels the width does not change, so w is the encoder's code_size).
C21_EmittedCodesFitWidth ==
    \A i \in 1..Len(lzw_encoder.emitted) :
        lzw_encoder.emitted[i] < Pow2(lzw_encoder.code_size)

\* C21, the start: when a frame's first chunk arrives the width is the
\* descriptor's min_code_size plus one.
C21_WidthStartsAtMinCodeSizePlusOne ==
    (lastEvent.kind = "StartFrame" /\ result = "ok")
        => lzw_encoder.code_size = MinCodeSizeWritten + 1

\* C21, the upper end: the width never exceeds 12.
C21_WidthAtMostTwelve == lzw_encoder.code_size <= 12

\* C21, what the code does in the first frame: the width stays at the
\* constructor's argument, and the second frame starts at 9.
C21_WidthIsTwoThenNine ==
    lzw_encoder.code_size = IF frame_count = 0 THEN 2 ELSE 9

----------------------------------------------------------------------------
(* Properties of the full dictionary. *)

LastEmitted == lzw_encoder.emitted[Len(lzw_encoder.emitted)]

\* The encoder has just cleared a full dictionary: the last code written is
\* the clear code, and it is not the one that opens the data.
JustCleared == Len(lzw_encoder.emitted) > 1 /\ LastEmitted = clear_code

\* C22, the range: the next code is at most 4096 and no code above 4095 is
\* emitted or inserted.
C22_CodesWithinTwelveBits ==
    /\ lzw_encoder.next_code <= 4096
    /\ \A i \in 1..Len(lzw_encoder.emitted) : lzw_encoder.emitted[i] <= 4095
    /\ \A k \in DOMAIN lzw_encoder.dictionary : lzw_encoder.dictionary[k] <= 4095

\* C22: codes stay within 12 bits, and when a pixel needs an insertion into
\* a full dictionary the encoder writes a clear code and is back at the
\* initial dictionary, the width min_code_size + 1 and the next code
\* 2^min_code_size + 2.
C22_FullDictionaryClearsAndResets ==
    /\ C22_CodesWithinTwelveBits
    /\ JustCleared =>
         /\ lzw_encoder.dictionary = EmptyDictionary
         /\ lzw_encoder.code_size = MinCodeSizeWritten + 1
         /\ lzw_encoder.next_code = Pow2(MinCodeSizeWritten) + 2

\* C22, what the code does: after the clear code the dictionary is the
\* initial one, the width is 9 and the next code 258, whatever the frame's
\* min_code_size.
C22_ClearsToNineAnd258 ==
    JustCleared =>
        /\ lzw_encoder.dictionary = EmptyDictionary
        /\ lzw_encoder.code_size = 9
        /\ lzw_encoder.next_code = 258
        /\ lzw_encoder.current_sequence = <<lastEvent.data[Len(lastEvent.data)]>>

\* The clear of a full dictionary is reached, in a frame of min_code_size 7.
C22_ClearReached == JustCleared /\ MinCodeSizeWritten = 7

----------------------------------------------------------------------------
(* Properties of the encoder at the start of a frame. *)

AfterStartFrame == lastEvent.kind = "StartFrame" /\ result = "ok"

\* C23: after StartFrame the LZW encoder is set up from the min_code_size k
\* of the descriptor just written: width k + 1, clear code 2^k, end code
\* 2^k + 1, next code 2^k + 2.
C23_EncoderInitialisedFromMinCodeSize ==
    AfterStartFrame =>
        /\ lzw_encoder.code_size = MinCodeSizeWritten + 1
        /\ clear_code = Pow2(MinCodeSizeWritten)
        /\ end_of_stream_code = Pow2(MinCodeSizeWritten) + 1
        /\ lzw_encoder.next_code = Pow2(MinCodeSizeWritten) + 2

\* C23, what the code does: StartFrame leaves the LZW encoder as it was;
\* its next code is 258 and its width 2 (first frame) or 9, while the
\* descriptors carry min_code_size 2, 3 or 9.
C23_StartFrameLeavesEncoder ==
    AfterStartFrame =>
        /\ lzw_encoder.next_code = 258
        /\ lzw_encoder.code_size = (IF frame_count = 0 THEN 2 ELSE 9)
        /\ lzw_encoder.current_sequence = <<>>
        /\ MinCodeSizeWritten \in {2, 3, 9}

\* C23, the first code of a frame's first chunk: it is 256 whatever the
\* descriptor's min_code_size.
C23_FirstCodeIs256 ==
    (lastEvent.kind = "WriteImageChunk" /\ result = "ok" /\ frame_count = 0)
        => frame_codes[1] = 256

----------------------------------------------------------------------------
(* Properties of the min_code_size byte. *)

\* The smallest k with 2^k >= n, for n in 1..256
SmallestK(n) == CHOOSE k \in 0..8 : Pow2(k) >= n /\ \A j \in 0..(k - 1) : Pow2(j) < n

AtLeast(lo, x) == IF x < lo THEN lo ELSE x

\* C24: the min_code_size byte of every image descriptor lies in 2..8, and
\* for a frame with a local palette it is the smallest k with 2^k >= the
\* palette's size, but at least 2.
C24_MinCodeSizeIsSmallestK ==
    AfterStartFrame =>
        /\ MinCodeSizeWritten \in 2..8
        /\ lastEvent.palette.some =>
             MinCodeSizeWritten = AtLeast(2, SmallestK(Len(lastEvent.palette.v)))

\* C24, the local palettes alone.
C24_LocalPaletteMinCodeSize ==
    (AfterStartFrame /\ lastEvent.palette.some) =>
        MinCodeSizeWritten = AtLeast(2, SmallestK(Len(lastEvent.palette.v)))

\* C24, what the code writes: one more than the smallest k >= 1 with
\* 2^k >= the local palette's size, and 9 for a frame without local palette.
C24_MinCodeSizeIsOneMore ==
    AfterStartFrame =>
        MinCodeSizeWritten =
            IF lastEvent.palette.some
            THEN AtLeast(1, SmallestK(Len(lastEvent.palette.v))) + 1
            ELSE 9

\* C24, where the byte is as claimed: local palettes of one or two colors.
C24_UpToTwoColors ==
    (AfterStartFrame /\ lastEvent.palette.some /\ Len(lastEvent.palette.v) <= 2)
        => MinCodeSizeWritten = 2

----------------------------------------------------------------------------
(* Properties of the interlaced row order. *)

\* The GIF 4-pass order: rows 0, 8, ...; 4, 12, ...; 2, 6, ...; 1, 3, ...
FourPassRows(h) ==
    StepBy(0, h, 8) \o StepBy(4, h, 8) \o StepBy(2, h, 4) \o StepBy(1, h, 2)

\* The rows `rows` of `data`, one after the other
RowsOf(data, w, rows) ==
    Flatten([i \in 1..Len(rows) |-> SubSeq(data, rows[i] * w + 1, rows[i] * w + w)])

\* The first chunk of the first frame, interlaced, has been written
AfterInterlacedChunk ==
    /\ lastEvent.kind = "WriteImageChunk" /\ result = "ok"
    /\ is_interlaced /\ frame_count = 0 /\ nchunks = 1

\* The write_code log of encode_chunk and finalize on `pixels`, from the
\* constructed encoder
CodesOf(pixels) == finalize(encode_chunk(LzwNew(2), pixels)).emitted

\* C25: for an interlaced frame the LZW encoder is fed the rows of the chunk
\* in the GIF 4-pass order.
C25_RowsFedInFourPassOrder ==
    AfterInterlacedChunk =>
        frame_codes = CodesOf(RowsOf(lastEvent.data, width, FourPassRows(height)))

\* C25, what the code does: the rows are fed in the order 0, 8, ...;
\* 1, 9, ...; 2, 6, ...; 3, 7, ...
C25_RowsFedInCodeOrder ==
    AfterInterlacedChunk =>
        frame_codes =
            CodesOf(RowsOf(lastEvent.data, width,
                           StepBy(0, height, 8) \o StepBy(1, height, 8)
                               \o StepBy(2, height, 4) \o StepBy(3, height, 4)))

\* C25, the heights where both orders are the same: 1 and 2.
C25_UpToTwoRows ==
    (AfterInterlacedChunk /\ height <= 2) =>
        frame_codes = CodesOf(RowsOf(lastEvent.data, width, FourPassRows(height)))

----------------------------------------------------------------------------
(* Properties of the bit packer. *)

\* finalize has run and no reset since
AfterFinalize == lastEvent.kind = "WriteImageChunk" /\ result = "ok"

\* C26, the counter: bit_count is below 8 after every write_code, the next
\* write_code raises it to at most 19, and it is 0 after finalize.
C26_BitCountBounded ==
    /\ lzw_encoder.bit_count < 8
    /\ lzw_encoder.bit_count + lzw_encoder.code_size <= 19
    /\ AfterFinalize => lzw_encoder.bit_count = 0

\* C26, the buffer: its value stays below 2^19, far from the 32 bits of u32.
C26_BufferBelowNineteenBits == lzw_encoder.bit_buffer < Pow2(19)

\* C26: at most 19 bits are buffered, fewer than 8 after every write_code,
\* and after finalize nothing is left in the buffer: the counter is 0 and so
\* is the buffer.
C26_BitBufferEmptiedByFinalize ==
    /\ C26_BitCountBounded
    /\ C26_BufferBelowNineteenBits
    /\ AfterFinalize => lzw_encoder.bit_buffer = 0

\* C26, what finalize leaves: the bits of the written codes that lie above
\* the code width stay in bit_buffer, here those of the end code 257 written
\* with width 2 or 9.
C26_FinalizeLeavesHighBits ==
    (AfterFinalize /\ frame_count = 0) => lzw_encoder.bit_buffer > 0

\* C26, where the left bits go: a second, empty chunk of the first frame
\* adds the end code's low byte 0x01 to the frame buffer only when
\* bit_buffer was 0.
C26_LeftBitsReachOutput ==
    (/\ AfterFinalize /\ frame_count = 0 /\ nchunks = 2
     /\ lastEvent.data = <<>>)
        => compressed_buffer[Len(compressed_buffer)] # 1

\* C26, the later frames: with the width 9 that reset leaves, the codes of
\* these chunks fit the width and finalize leaves bit_buffer at 0.
C26_WidthNineEmptiesBuffer ==
    (AfterFinalize /\ frame_count >= 1) => lzw_encoder.bit_buffer = 0

----------------------------------------------------------------------------
(* Properties of the frame buffer across chunks. *)

\* The compressed data of `pixels` given as one chunk to the constructed
\* encoder
OneChunkData(pixels) ==
    get_encoded_data(finalize(encode_chunk(LzwNew(2), pixels)))

\* C27: after the WriteImageChunk events of the first frame the frame buffer
\* is the LZW encoder's output, and when the frame's pixels came in two
\* chunks it is the buffer one chunk with all the pixels gives.
C27_BufferIsEncoderOutput ==
    (AfterFinalize /\ frame_count = 0) =>
        /\ compressed_buffer = get_encoded_data(lzw_encoder)
        /\ nchunks = 2 => compressed_buffer = OneChunkData(RowPixels(width, height))

\* C27, one chunk: the frame buffer is the encoder's output.
C27_OneChunkBufferIsOutput ==
    (AfterFinalize /\ frame_count = 0 /\ nchunks = 1) =>
        compressed_buffer = get_encoded_data(lzw_encoder)

\* C27, what the second chunk does: it appends the encoder's whole output,
\* the first chunk's bytes included, after the first chunk's bytes.
C27_SecondChunkAppendsWholeOutput ==
    (AfterFinalize /\ frame_count = 0 /\ nchunks = 2) =>
        \E n \in 1..Len(lzw_encoder.output) :
            compressed_buffer = Take(lzw_encoder.output, n) \o lzw_encoder.output

\* C27, the encoder's output alone: even it differs from the one-chunk data,
\* the end code of the first chunk lying inside it.
C27_SplitOutputDiffers ==
    (AfterFinalize /\ frame_count = 0 /\ nchunks = 2) =>
        get_encoded_data(lzw_encoder) # OneChunkData(RowPixels(width, height))

----------------------------------------------------------------------------
(* Properties of a frame that is ended without FlushFrame. *)

----------------------------------------------------------------------------
(* Properties of the interlaced rows as a whole. *)

\* What encode_interlaced_data made of the chunk last written
FedPixels == encode_interlaced_data(lastEvent.data, width, height, FALSE).data

\* How many pixels of `pixels` have the value v
Occurrences(v, pixels) == Cardinality({i \in 1..Len(pixels) : pixels[i] = v})

\* Every row of 0..h-1 is in `rows` exactly once
IsRowPermutation(rows, h) ==
    /\ Len(rows) = h
    /\ \A r \in 0..(h - 1) : Cardinality({i \in 1..Len(rows) : rows[i] = r}) = 1

\* C29: the row order of an interlaced chunk is a permutation of the rows
\* 0..height-1, so the pixels fed to the LZW encoder are as many as the chunk
\* holds and every row (row r is filled with the value r) is among them once.
C29_RowOrderIsPermutation ==
    AfterInterlacedChunk =>
        /\ frame_codes = CodesOf(FedPixels)
        /\ IsRowPermutation(row_indices(height), height)
        /\ Len(FedPixels) = Len(lastEvent.data)
        /\ \A r \in 0..(height - 1) : Occurrences(r, FedPixels) = width

\* C29, the heights up to 4: the order is a permutation.
C29_UpToFourRows ==
    (AfterInterlacedChunk /\ height <= 4) =>
        /\ frame_codes = CodesOf(FedPixels)
        /\ IsRowPermutation(row_indices(height), height)
        /\ Len(FedPixels) = Len(lastEvent.data)

\* C29, what the code does from height 5 on: the rows 4 and 5 (and every
\* row 8n+4, 8n+5) are not fed, every other row is fed once.
C29_RowsFourAndFiveLeftOut ==
    AfterInterlacedChunk =>
        /\ frame_codes = CodesOf(FedPixels)
        /\ \A r \in 0..(height - 1) :
             Occurrences(r, FedPixels) = IF r % 8 \in {4, 5} THEN 0 ELSE width

----------------------------------------------------------------------------
(* Termination of parse_gif. *)

\* C30: every iteration of the block loop leaves the loop or shortens the
\* remaining input by at least one byte, so the loop ends after at most
\* Len(input) iterations.
C30_EachIterationConsumesOrLeaves ==
    [][p_pc = "loop" => (p_pc' # "loop" \/ Len(p_rest') < Len(p_rest))]_vars

\* C30, the return: parse_gif returns, with Ok or with an error.
C30_ParseGifReturns == <>(p_pc \in {"ok", "err"})

\* C30, the count: the loop never runs more often than the input has bytes.
C30_IterationsBoundedByInput == Len(p_trace) + Len(p_rest) <= Len(p_input)

\* The loop ran three times or more, skipped an unknown introducer on the
\* way, and was left with the input used up.
C30_Witness ==
    /\ p_pc = "ok"
    /\ p_rest = <<>>
    /\ Len(p_trace) >= 3
    /\ \E i \in 1..Len(p_trace) : p_trace[i].kind = "None"

\* ------------------------------------------------------------------------
\* C31: whenever parse_gif returns an error, every field of the demuxer has
\* the value it had before the call.
C31_ErrorLeavesDemuxer ==
    [][p_pc = "start" /\ p_pc' = "err" => demuxer' = demuxer]_vars

\* C31, the signature and the descriptor: an error from a wrong or short
\* signature or from a logical screen descriptor cut short leaves every
\* field of the demuxer as it was.
C31_ErrorBeforeScreenFieldsLeavesDemuxer ==
    [][(/\ p_pc = "start"
        /\ p_pc' = "err"
        /\ \/ ~parse_header(p_input).ok
           \/ ~parse_logical_screen_descriptor(parse_header(p_input).rest).ok)
       => demuxer' = demuxer]_vars

\* C31, the table: an error from a global color table cut short leaves the
\* table, the frames and the extension lists as they were, and leaves the
\* five fields of the logical screen descriptor at the values just read.
C31_CutTableKeepsScreenFields ==
    [][(/\ p_pc = "start"
        /\ p_pc' = "err"
        /\ parse_header(p_input).ok
        /\ parse_logical_screen_descriptor(parse_header(p_input).rest).ok)
       => LET lsd == parse_logical_screen_descriptor(parse_header(p_input).rest)
          IN demuxer' = [demuxer EXCEPT
                            !.screen_width = lsd.width,
                            !.screen_height = lsd.height,
                            !.packed_fields = lsd.packed_fields,
                            !.background_color_index = lsd.background_color_index,
                            !.pixel_aspect_ratio = lsd.pixel_aspect_ratio]]_vars

\* C31, the case: parse_gif has returned an error on a demuxer that still
\* holds the table and the frame of an earlier file, with the screen size of
\* the new one.
C31_ErrorWithNewScreenSize ==
    /\ p_pc = "err"
    /\ demuxer.screen_width = 320
    /\ demuxer.screen_height = 200
    /\ demuxer.global_color_table = <<1, 2, 3, 4, 5, 6>>
    /\ Len(demuxer.frames) = 1

\* ------------------------------------------------------------------------
\* C32: in every reachable state of the LZW encoder the buffered prefix is
\* empty or a key of the dictionary, it is not empty when encode_chunk would
\* look up its code for the next pixel, and no lookup of encode_chunk or
\* finalize has missed.
C32_PrefixIsKeyAndLookupsHit ==
    LET l == lzw_encoder
    IN /\ ~l.panic
       /\ l.current_sequence = <<>> \/ contains_key(l.dictionary, l.current_sequence)
       /\ \A pixel \in 0..255 :
            ~contains_key(l.dictionary, Append(l.current_sequence, pixel))
                => l.current_sequence # <<>>

\* C32, the case: after a finalize and a reset, encode_chunk has buffered a
\* prefix of two pixels that it inserted since the reset.
C32_Witness ==
    /\ \E i \in 1..Len(lzw_encoder.emitted) : lzw_encoder.emitted[i] = end_of_stream_code
    /\ lzw_encoder.code_size = 9
    /\ Len(lzw_encoder.current_sequence) = 2
    /\ lzw_encoder.current_sequence \in DOMAIN lzw_encoder.dictionary

\* C32, the reset: reset leaves no prefix and no inserted key behind.
C32_ResetEmptiesPrefix ==
    [][lzw_encoder' = LzwReset(lzw_encoder)
       => /\ lzw_encoder'.current_sequence = <<>>
          /\ DOMAIN lzw_encoder'.dictionary = {}]_vars

\* C32, the keys: the inserted keys are the prefixes of two or more pixels
\* numbered 258 .. next_code - 1, one key per code.
C32_InsertedKeysNumbered ==
    LET d == lzw_encoder.dictionary
    IN /\ \A s \in DOMAIN d : Len(s) >= 2 /\ d[s] \in 258..(lzw_encoder.next_code - 1)
       /\ Cardinality(DOMAIN d) = lzw_encoder.next_code - 258

====
